---- MODULE Spec2Model ----
(***************************************************************************)
(* A model of the teaching examples of the repository: the decorator       *)
(* chains of design_patterns/adapter_decorator.hpp and the ownership of    *)
(* their objects, the singletons of design_patterns/singleton.hpp, the     *)
(* PIN-guarded BankAccount of basic/encapsulation.hpp, the SafeBankAccount *)
(* of test_smart_pointers.cpp, the Calculator of the build examples, the   *)
(* PaymentAdapter and the Subject of the pattern collection, the demo      *)
(* mains, the sort and compression strategies of                           *)
(* design_patterns/strategy.hpp, the Vehicle counter, the database         *)
(* connections and the Document of test_exception_handling.cpp, Person     *)
(* and MyString.                                                           *)
(* Each example is a state machine of its own; a specification of one      *)
(* example leaves the variables of the others at their initial values.     *)
(***************************************************************************)
EXTENDS Integers, Sequences, FiniteSets, TLC

VARIABLES
    coffee,       \* the caller's std::unique_ptr<Coffee>: the chain, base first; <<>> is a null handle
    processor,    \* the caller's std::unique_ptr<TextProcessor>: the chain, base first; <<>> is null
    call,         \* the last member call made on the object a handle owns now: receiver, argument, result
    instance,     \* DatabaseConnection::instance: the address it holds, NullPtr at start
    mutex_,       \* DatabaseConnection::mutex_: the thread that holds it, NoThread when free
    heap,         \* the DatabaseConnection objects made by new: address -> connection_string
    statics,      \* which function-local static singletons have been constructed
    pc,           \* per thread: its position inside DatabaseConnection::getInstance
    conn_str,     \* per thread: the argument of its getInstance call
    ret,          \* per thread and accessor: the instance its last call returned
    first,        \* per accessor: the instance the first call of the process returned
    constructed,  \* whether the BankAccount constructor has completed
    balance,      \* BankAccount::balance
    pin,          \* BankAccount::pin
    isActive,     \* BankAccount::isActive
    bankCall,     \* the last call made on the account, with its outcome
    bankPrev,     \* the call made before bankCall
    accounts,     \* the SafeBankAccount objects: per account its balance and transactionHistory
    safeCall,     \* the last call made on a SafeBankAccount, with its outcome
    objects,      \* the Coffee and TextProcessor objects alive: address -> class and member pointer
    handles,      \* the caller's std::unique_ptr variables: the address each holds, NullPtr when empty
    ownCall,      \* the last statement the owner of the handles ran
    calcCall,     \* the last call of a Calculator function, with its outcome
    legacyGateway, \* PaymentAdapter::legacyGateway: whether the adapter has been constructed and owns its gateway
    currency,     \* PaymentAdapter::currency
    payments,     \* the makePayment calls the LegacyPaymentGateway has received, in order
    payCall,      \* the last call made on the adapter, with its result
    program,      \* which demo main runs; "" before one starts
    mainPc,       \* where its main is: body, catch, returned or terminated
    section,      \* the section of the body that runs or ran last
    thrown,       \* the type of the exception that left the body; "" when none did
    localCatches, \* exceptions caught by a try block inside the body
    exitCode,     \* the value main returned; -1 while it has not returned
    observers,    \* Subject::observers, the vector of attached observers
    subjectState, \* Subject::state
    updates,      \* the update() calls made by the last setState, in order
    attachedNow,  \* the observers the caller attached and has not detached since, in attach order
    subjectCall,  \* the last call on the Subject
    sortStrategy, \* SortContext::strategy; "" is the null pointer
    data,         \* the vector handed to performSort, as the call left it
    sortCall,     \* the last call on the SortContext and how it ended
    compressionStrategy, \* CompressionContext::strategy; "" is the null pointer
    compressionCall, \* the last call on the CompressionContext, its argument and how it ended
    vehicles,     \* every Vehicle object made so far: its class, how it was made, whether it is alive
    totalVehicles, \* Vehicle::totalVehicles
    connection,   \* the DatabaseConnection object: its class and fields; databaseType "" before it is made
    dbCall,       \* the last call on the connection: what was called, whether it was connected, what it returned, the transaction calls it made
    persons,      \* the Person objects by variable: whether constructed, name and age
    personCall,   \* the last operation on a Person and whether it returned or threw
    document,     \* the Document that is serialized: title, content, author, pageCount
    serialized,   \* the string serialize() returned, as its characters
    restored,     \* the Document deserialize() is called on
    docCall,      \* the last call on a Document and how it ended
    strings,      \* the MyString objects by variable: whether alive, data (a buffer, 0 for nullptr) and size
    buffers,      \* every char buffer new[] can hand out: unused, allocated or released, its text, how often delete[] took it
    strCall       \* the last MyString operation, its target and its source

decoVars == <<coffee, processor, call>>
singletonVars == <<instance, mutex_, heap, statics, pc, conn_str, ret, first>>
bankVars == <<constructed, balance, pin, isActive, bankCall, bankPrev>>
safeVars == <<accounts, safeCall>>
ownVars == <<objects, handles, ownCall>>
calcVars == <<calcCall>>
adapterVars == <<legacyGateway, currency, payments, payCall>>
mainVars == <<program, mainPc, section, thrown, localCatches, exitCode>>
observerVars == <<observers, subjectState, updates, attachedNow, subjectCall>>
sortVars == <<sortStrategy, data, sortCall>>
compressionVars == <<compressionStrategy, compressionCall>>
vehicleVars == <<vehicles, totalVehicles>>
databaseVars == <<connection, dbCall>>
personVars == <<persons, personCall>>
documentVars == <<document, serialized, restored, docCall>>
myStringVars == <<strings, buffers, strCall>>
vars == <<decoVars, singletonVars, bankVars, safeVars, ownVars, calcVars, adapterVars, mainVars, observerVars, sortVars, compressionVars, vehicleVars, databaseVars, personVars, documentVars, myStringVars>>

\* what the operations of one example leave alone: the state of the other examples
otherThanDeco == <<singletonVars, bankVars, safeVars, ownVars, calcVars, adapterVars, mainVars, observerVars, sortVars, compressionVars, vehicleVars, databaseVars, personVars, documentVars, myStringVars>>
otherThanSingleton == <<decoVars, bankVars, safeVars, ownVars, calcVars, adapterVars, mainVars, observerVars, sortVars, compressionVars, vehicleVars, databaseVars, personVars, documentVars, myStringVars>>
otherThanBank == <<decoVars, singletonVars, safeVars, ownVars, calcVars, adapterVars, mainVars, observerVars, sortVars, compressionVars, vehicleVars, databaseVars, personVars, documentVars, myStringVars>>
otherThanSafe == <<decoVars, singletonVars, bankVars, ownVars, calcVars, adapterVars, mainVars, observerVars, sortVars, compressionVars, vehicleVars, databaseVars, personVars, documentVars, myStringVars>>
otherThanOwn == <<decoVars, singletonVars, bankVars, safeVars, calcVars, adapterVars, mainVars, observerVars, sortVars, compressionVars, vehicleVars, databaseVars, personVars, documentVars, myStringVars>>
otherThanCalc == <<decoVars, singletonVars, bankVars, safeVars, ownVars, adapterVars, mainVars, observerVars, sortVars, compressionVars, vehicleVars, databaseVars, personVars, documentVars, myStringVars>>
otherThanAdapter == <<decoVars, singletonVars, bankVars, safeVars, ownVars, calcVars, mainVars, observerVars, sortVars, compressionVars, vehicleVars, databaseVars, personVars, documentVars, myStringVars>>
otherThanMain == <<decoVars, singletonVars, bankVars, safeVars, ownVars, calcVars, adapterVars, observerVars, sortVars, compressionVars, vehicleVars, databaseVars, personVars, documentVars, myStringVars>>
otherThanObserver == <<decoVars, singletonVars, bankVars, safeVars, ownVars, calcVars, adapterVars, mainVars, sortVars, compressionVars, vehicleVars, databaseVars, personVars, documentVars, myStringVars>>
otherThanSort == <<decoVars, singletonVars, bankVars, safeVars, ownVars, calcVars, adapterVars, mainVars, observerVars, compressionVars, vehicleVars, databaseVars, personVars, documentVars, myStringVars>>
otherThanCompression == <<decoVars, singletonVars, bankVars, safeVars, ownVars, calcVars, adapterVars, mainVars, observerVars, sortVars, vehicleVars, databaseVars, personVars, documentVars, myStringVars>>
otherThanVehicle == <<decoVars, singletonVars, bankVars, safeVars, ownVars, calcVars, adapterVars, mainVars, observerVars, sortVars, compressionVars, databaseVars, personVars, documentVars, myStringVars>>
otherThanDatabase == <<decoVars, singletonVars, bankVars, safeVars, ownVars, calcVars, adapterVars, mainVars, observerVars, sortVars, compressionVars, vehicleVars, personVars, documentVars, myStringVars>>
otherThanPerson == <<decoVars, singletonVars, bankVars, safeVars, ownVars, calcVars, adapterVars, mainVars, observerVars, sortVars, compressionVars, vehicleVars, databaseVars, documentVars, myStringVars>>
otherThanDocument == <<decoVars, singletonVars, bankVars, safeVars, ownVars, calcVars, adapterVars, mainVars, observerVars, sortVars, compressionVars, vehicleVars, databaseVars, personVars, myStringVars>>
otherThanMyString == <<decoVars, singletonVars, bankVars, safeVars, ownVars, calcVars, adapterVars, mainVars, observerVars, sortVars, compressionVars, vehicleVars, databaseVars, personVars, documentVars>>

(***************************************************************************)
(* Bounds of the model.                                                    *)
(***************************************************************************)
MaxWrap == 3        \* decorators wrapped around one base object
MaxTextLen == 2     \* characters of a text handed to process()

(***************************************************************************)
(* Small helpers.                                                          *)
(***************************************************************************)
Front(s) == SubSeq(s, 1, Len(s) - 1)
Last(s) == s[Len(s)]

NoCall == [op |-> "none", self |-> <<>>, arg |-> <<>>, result |-> <<>>]

(***************************************************************************)
(* Coffee decorators.  A chain is a sequence of class names: chain[1] is   *)
(* the base object and chain[i + 1] the decorator that owns chain[1..i].   *)
(* Costs are in tenths of a dollar (2.0 is 20, 0.5 is 5).                  *)
(***************************************************************************)
CoffeeBases == {"SimpleCoffee", "Espresso"}
CoffeeDecorators == {"CoffeeDecorator", "MilkDecorator", "SugarDecorator",
                     "VanillaDecorator", "WhippedCreamDecorator"}

RECURSIVE Coffee_getDescription(_)
RECURSIVE Coffee_getCost(_)
RECURSIVE Coffee_prepare(_)

SimpleCoffee_getDescription == "Simple Coffee"
SimpleCoffee_getCost == 20
SimpleCoffee_prepare == <<"Brewing simple black coffee...">>

Espresso_getDescription == "Espresso"
Espresso_getCost == 30
Espresso_prepare == <<"Preparing rich espresso shot...">>

\* the methods of a decorator take its member `coffee', the chain it owns
CoffeeDecorator_getDescription(c) == Coffee_getDescription(c)
CoffeeDecorator_getCost(c) == Coffee_getCost(c)
CoffeeDecorator_prepare(c) == Coffee_prepare(c)

\* a faulty MilkDecorator::getDescription: the suffix put in front
MilkDecorator_getDescription_Prefixed(c) == " + Milk" \o Coffee_getDescription(c)

MilkDecorator_getDescription(c) == Coffee_getDescription(c) \o " + Milk"
MilkDecorator_getCost(c) == Coffee_getCost(c) + 5
\* a faulty MilkDecorator::prepare: its own step before the wrapped object's
MilkDecorator_prepare_OwnFirst(c) ==
    <<"Adding creamy steamed milk...">> \o Coffee_prepare(c)

MilkDecorator_prepare(c) ==
    Coffee_prepare(c) \o <<"Adding creamy steamed milk...">>

SugarDecorator_getDescription(c) == Coffee_getDescription(c) \o " + Sugar"
\* a faulty SugarDecorator::getCost: the delta forgotten
SugarDecorator_getCost_NoDelta(c) == Coffee_getCost(c)

SugarDecorator_getCost(c) == Coffee_getCost(c) + 2
SugarDecorator_prepare(c) ==
    Coffee_prepare(c) \o <<"Adding sweet sugar...">>

VanillaDecorator_getDescription(c) == Coffee_getDescription(c) \o " + Vanilla"
VanillaDecorator_getCost(c) == Coffee_getCost(c) + 7
VanillaDecorator_prepare(c) ==
    Coffee_prepare(c) \o <<"Adding aromatic vanilla flavor...">>

WhippedCreamDecorator_getDescription(c) ==
    Coffee_getDescription(c) \o " + Whipped Cream"
WhippedCreamDecorator_getCost(c) == Coffee_getCost(c) + 10
WhippedCreamDecorator_prepare(c) ==
    Coffee_prepare(c) \o <<"Topping with fluffy whipped cream...">>

\* virtual dispatch on the dynamic type of the outermost object of chain c
Coffee_getDescription(c) ==
    CASE Last(c) = "SimpleCoffee" -> SimpleCoffee_getDescription
      [] Last(c) = "Espresso" -> Espresso_getDescription
      [] Last(c) = "CoffeeDecorator" -> CoffeeDecorator_getDescription(Front(c))
      [] Last(c) = "MilkDecorator" -> MilkDecorator_getDescription(Front(c))
      [] Last(c) = "SugarDecorator" -> SugarDecorator_getDescription(Front(c))
      [] Last(c) = "VanillaDecorator" -> VanillaDecorator_getDescription(Front(c))
      [] Last(c) = "WhippedCreamDecorator" ->
             WhippedCreamDecorator_getDescription(Front(c))

Coffee_getCost(c) ==
    CASE Last(c) = "SimpleCoffee" -> SimpleCoffee_getCost
      [] Last(c) = "Espresso" -> Espresso_getCost
      [] Last(c) = "CoffeeDecorator" -> CoffeeDecorator_getCost(Front(c))
      [] Last(c) = "MilkDecorator" -> MilkDecorator_getCost(Front(c))
      [] Last(c) = "SugarDecorator" -> SugarDecorator_getCost(Front(c))
      [] Last(c) = "VanillaDecorator" -> VanillaDecorator_getCost(Front(c))
      [] Last(c) = "WhippedCreamDecorator" -> WhippedCreamDecorator_getCost(Front(c))

Coffee_prepare(c) ==
    CASE Last(c) = "SimpleCoffee" -> SimpleCoffee_prepare
      [] Last(c) = "Espresso" -> Espresso_prepare
      [] Last(c) = "CoffeeDecorator" -> CoffeeDecorator_prepare(Front(c))
      [] Last(c) = "MilkDecorator" -> MilkDecorator_prepare(Front(c))
      [] Last(c) = "SugarDecorator" -> SugarDecorator_prepare(Front(c))
      [] Last(c) = "VanillaDecorator" -> VanillaDecorator_prepare(Front(c))
      [] Last(c) = "WhippedCreamDecorator" -> WhippedCreamDecorator_prepare(Front(c))

(***************************************************************************)
(* Text-processing decorators.  A text is a sequence of character codes    *)
(* (ASCII), a chain a sequence of records: chain[1] is the base processor  *)
(* and chain[i + 1] the decorator that owns chain[1..i].  An               *)
(* EncryptionDecorator carries its member `shift'.                         *)
(***************************************************************************)
DefaultShift == 3
ShiftValues == {DefaultShift, 5, 27, -1}

PlainText == [kind |-> "PlainTextProcessor"]
TextDecorators ==
    {[kind |-> k] : k \in {"TextProcessorDecorator", "UpperCaseDecorator",
                            "CompressionDecorator"}}
    \cup {[kind |-> "EncryptionDecorator", shift |-> s] : s \in ShiftValues}

\* 'a', 'Z' and ' '
TextAlphabet == {97, 90, 32}
Texts == UNION {[1..n -> TextAlphabet] : n \in 0..MaxTextLen}

\* the <cctype> classification of the "C" locale
isupper(c) == c >= 65 /\ c <= 90
islower(c) == c >= 97 /\ c <= 122
isalpha(c) == isupper(c) \/ islower(c)
toupper(c) == IF islower(c) THEN c - 32 ELSE c

\* the remainder of C++ integer division, which truncates towards zero
CRem(a, b) == IF a >= 0 THEN a % b ELSE -((-a) % b)

\* std::to_string(int)
Digit(d) ==
    CASE d = 0 -> "0" [] d = 1 -> "1" [] d = 2 -> "2" [] d = 3 -> "3"
      [] d = 4 -> "4" [] d = 5 -> "5" [] d = 6 -> "6" [] d = 7 -> "7"
      [] d = 8 -> "8" [] d = 9 -> "9"

RECURSIVE NatToString(_)
NatToString(n) ==
    IF n < 10 THEN Digit(n) ELSE NatToString(n \div 10) \o Digit(n % 10)

to_string(n) == IF n < 0 THEN "-" \o NatToString(-n) ELSE NatToString(n)

RECURSIVE TextProcessor_process(_, _)
RECURSIVE TextProcessor_getProcessingInfo(_)

PlainTextProcessor_process(text) == text
PlainTextProcessor_getProcessingInfo == "Plain Text"

\* the methods of a decorator take its member `processor', the chain it owns
TextProcessorDecorator_process(p, text) == TextProcessor_process(p, text)
TextProcessorDecorator_getProcessingInfo(p) == TextProcessor_getProcessingInfo(p)

\* std::transform(processed.begin(), processed.end(), processed.begin(), ::toupper)
TransformToUpper(processed) ==
    [i \in 1..Len(processed) |-> toupper(processed[i])]

UpperCaseDecorator_process(p, text) ==
    LET processed == TextProcessor_process(p, text)
    IN  TransformToUpper(processed)

UpperCaseDecorator_getProcessingInfo(p) ==
    TextProcessor_getProcessingInfo(p) \o " -> UpperCase"

\* a faulty loop body: every letter shifted as if it were lower case
EncryptChar_LowerBase(c, shift) ==
    IF isalpha(c) THEN CRem(c - 97 + shift, 26) + 97 ELSE c

\* the body of the loop of EncryptionDecorator::process for one character
EncryptChar(c, shift) ==
    IF isalpha(c)
      THEN LET base == IF isupper(c) THEN 65 ELSE 97
           IN  CRem(c - base + shift, 26) + base
      ELSE c

EncryptionDecorator_process(p, shift, text) ==
    LET processed == TextProcessor_process(p, text)
    IN  [i \in 1..Len(processed) |-> EncryptChar(processed[i], shift)]

\* a faulty EncryptionDecorator::getProcessingInfo: the shift left out
EncryptionDecorator_getProcessingInfo_NoShift(p, shift) ==
    TextProcessor_getProcessingInfo(p) \o " -> Encrypted"

EncryptionDecorator_getProcessingInfo(p, shift) ==
    TextProcessor_getProcessingInfo(p)
        \o " -> Encrypted(shift=" \o to_string(shift) \o ")"

\* the loop of CompressionDecorator::process from character i on
RECURSIVE CompressLoop(_, _, _, _)
CompressLoop(processed, i, prevSpace, compressed) ==
    IF i > Len(processed) THEN compressed
    ELSE IF processed[i] = 32
      THEN IF ~prevSpace
             THEN CompressLoop(processed, i + 1, TRUE,
                               Append(compressed, processed[i]))
             ELSE CompressLoop(processed, i + 1, prevSpace, compressed)
      ELSE CompressLoop(processed, i + 1, FALSE,
                        Append(compressed, processed[i]))

CompressionDecorator_process(p, text) ==
    LET processed == TextProcessor_process(p, text)
    IN  CompressLoop(processed, 1, FALSE, <<>>)

CompressionDecorator_getProcessingInfo(p) ==
    TextProcessor_getProcessingInfo(p) \o " -> Compressed"

\* virtual dispatch on the dynamic type of the outermost object of chain c
TextProcessor_process(c, text) ==
    CASE Last(c).kind = "PlainTextProcessor" -> PlainTextProcessor_process(text)
      [] Last(c).kind = "TextProcessorDecorator" ->
             TextProcessorDecorator_process(Front(c), text)
      [] Last(c).kind = "UpperCaseDecorator" ->
             UpperCaseDecorator_process(Front(c), text)
      [] Last(c).kind = "EncryptionDecorator" ->
             EncryptionDecorator_process(Front(c), Last(c).shift, text)
      [] Last(c).kind = "CompressionDecorator" ->
             CompressionDecorator_process(Front(c), text)

TextProcessor_getProcessingInfo(c) ==
    CASE Last(c).kind = "PlainTextProcessor" -> PlainTextProcessor_getProcessingInfo
      [] Last(c).kind = "TextProcessorDecorator" ->
             TextProcessorDecorator_getProcessingInfo(Front(c))
      [] Last(c).kind = "UpperCaseDecorator" ->
             UpperCaseDecorator_getProcessingInfo(Front(c))
      [] Last(c).kind = "EncryptionDecorator" ->
             EncryptionDecorator_getProcessingInfo(Front(c), Last(c).shift)
      [] Last(c).kind = "CompressionDecorator" ->
             CompressionDecorator_getProcessingInfo(Front(c))

(***************************************************************************)
(* The operations of a caller that holds one chain, as the demonstrations  *)
(* do: wrap the object the handle owns into a new decorator and store the  *)
(* decorator in the handle, or call a member of the outermost object.  The *)
(* handle then owns a new object, on which no member has been called yet.  *)
(***************************************************************************)
\* auto coffee = std::make_unique<SimpleCoffee>(), or the same for a text processor
DecoInit ==
    /\ \/ /\ coffee \in {<<b>> : b \in CoffeeBases}
          /\ processor = <<>>
       \/ /\ coffee = <<>>
          /\ processor = <<PlainText>>
    /\ call = NoCall

\* coffee = std::make_unique<D>(std::move(coffee))
WrapCoffee ==
    /\ coffee # <<>>
    /\ Len(coffee) - 1 < MaxWrap
    /\ \E d \in CoffeeDecorators : coffee' = Append(coffee, d)
    /\ call' = NoCall
    /\ UNCHANGED processor
    /\ UNCHANGED otherThanDeco

GetDescription ==
    /\ coffee # <<>>
    /\ call' = [op |-> "getDescription", self |-> coffee, arg |-> <<>>,
                result |-> Coffee_getDescription(coffee)]
    /\ UNCHANGED <<coffee, processor>>
    /\ UNCHANGED otherThanDeco

GetCost ==
    /\ coffee # <<>>
    /\ call' = [op |-> "getCost", self |-> coffee, arg |-> <<>>,
                result |-> Coffee_getCost(coffee)]
    /\ UNCHANGED <<coffee, processor>>
    /\ UNCHANGED otherThanDeco

\* the result of prepare is the lines it wrote to std::cout
Prepare ==
    /\ coffee # <<>>
    /\ call' = [op |-> "prepare", self |-> coffee, arg |-> <<>>,
                result |-> Coffee_prepare(coffee)]
    /\ UNCHANGED <<coffee, processor>>
    /\ UNCHANGED otherThanDeco

\* processor = std::make_unique<D>(std::move(processor)), with a shift for encryption
WrapProcessor ==
    /\ processor # <<>>
    /\ Len(processor) - 1 < MaxWrap
    /\ \E d \in TextDecorators : processor' = Append(processor, d)
    /\ call' = NoCall
    /\ UNCHANGED coffee
    /\ UNCHANGED otherThanDeco

\* a faulty process: the outermost decorator is released by the call
Process_DropsOuter ==
    /\ processor # <<>>
    /\ \E text \in Texts :
           call' = [op |-> "process", self |-> processor, arg |-> text,
                    result |-> TextProcessor_process(processor, text)]
    /\ processor' = IF Len(processor) > 1 THEN Front(processor) ELSE processor
    /\ UNCHANGED coffee
    /\ UNCHANGED otherThanDeco

Process ==
    /\ processor # <<>>
    /\ \E text \in Texts :
           call' = [op |-> "process", self |-> processor, arg |-> text,
                    result |-> TextProcessor_process(processor, text)]
    /\ UNCHANGED <<coffee, processor>>
    /\ UNCHANGED otherThanDeco

GetProcessingInfo ==
    /\ processor # <<>>
    /\ call' = [op |-> "getProcessingInfo", self |-> processor, arg |-> <<>>,
                result |-> TextProcessor_getProcessingInfo(processor)]
    /\ UNCHANGED <<coffee, processor>>
    /\ UNCHANGED otherThanDeco

DecoNext ==
    \/ WrapCoffee
    \/ GetDescription
    \/ GetCost
    \/ Prepare
    \/ WrapProcessor
    \/ Process
    \/ GetProcessingInfo

(***************************************************************************)
(* Singletons.  Threads call the accessors any number of times.            *)
(* DatabaseConnection::getInstance is a sequence of steps under a          *)
(* std::lock_guard; the accessors of Logger and ConfigManager return a     *)
(* function-local static, whose initialisation the language makes atomic.  *)
(* An address is a number: the i-th object made by new has address i.      *)
(***************************************************************************)
NumThreads == 2     \* threads that call the accessors

Threads == 1..NumThreads
NullPtr == 0
NoThread == 0
LoggerAddr == 1001          \* the address of the static local of Logger::getInstance
ConfigManagerAddr == 1002   \* the address of the static local of ConfigManager::getInstance
ConnStrings == {"mysql://localhost:3306", "postgres://localhost:5432"}

NoInstances == [db |-> NullPtr, logger |-> NullPtr, config |-> NullPtr]

SingletonInit ==
    /\ instance = NullPtr
    /\ mutex_ = NoThread
    /\ heap = <<>>
    /\ statics = [Logger |-> FALSE, ConfigManager |-> FALSE]
    /\ pc = [t \in Threads |-> "idle"]
    /\ conn_str = [t \in Threads |-> ""]
    /\ ret = [t \in Threads |-> NoInstances]
    /\ first = NoInstances

\* the call DatabaseConnection::getInstance(conn_str)
DB_getInstance(t) ==
    /\ pc[t] = "idle"
    /\ \E s \in ConnStrings : conn_str' = [conn_str EXCEPT ![t] = s]
    /\ pc' = [pc EXCEPT ![t] = "lock"]
    /\ UNCHANGED <<instance, mutex_, heap, statics, ret, first>>
    /\ UNCHANGED otherThanSingleton

\* a faulty getInstance: the check made without waiting for the mutex
DB_Lock_NoWait(t) ==
    /\ pc[t] = "lock"
    /\ pc' = [pc EXCEPT ![t] = "check"]
    /\ UNCHANGED <<instance, mutex_, heap, statics, conn_str, ret, first>>
    /\ UNCHANGED otherThanSingleton

\* std::lock_guard<std::mutex> lock(mutex_): blocks while another thread holds it
DB_Lock(t) ==
    /\ pc[t] = "lock"
    /\ mutex_ = NoThread
    /\ mutex_' = t
    /\ pc' = [pc EXCEPT ![t] = "check"]
    /\ UNCHANGED <<instance, heap, statics, conn_str, ret, first>>
    /\ UNCHANGED otherThanSingleton

\* a faulty getInstance: a new object on every call
DB_Check_AlwaysNew(t) ==
    /\ pc[t] = "check"
    /\ pc' = [pc EXCEPT ![t] = "new"]
    /\ UNCHANGED <<instance, mutex_, heap, statics, conn_str, ret, first>>
    /\ UNCHANGED otherThanSingleton

\* if (instance == nullptr)
DB_Check(t) ==
    /\ pc[t] = "check"
    /\ pc' = [pc EXCEPT ![t] = IF instance = NullPtr THEN "new" ELSE "return"]
    /\ UNCHANGED <<instance, mutex_, heap, statics, conn_str, ret, first>>
    /\ UNCHANGED otherThanSingleton

\* instance = new DatabaseConnection(conn_str)
DB_New(t) ==
    /\ pc[t] = "new"
    /\ heap' = Append(heap, conn_str[t])
    /\ instance' = Len(heap) + 1
    /\ pc' = [pc EXCEPT ![t] = "return"]
    /\ UNCHANGED <<mutex_, statics, conn_str, ret, first>>
    /\ UNCHANGED otherThanSingleton

\* return instance, and the destructor of the lock_guard releases the mutex
DB_Return(t) ==
    /\ pc[t] = "return"
    /\ ret' = [ret EXCEPT ![t].db = instance]
    /\ first' = IF first.db = NullPtr THEN [first EXCEPT !.db = instance] ELSE first
    /\ mutex_' = IF mutex_ = t THEN NoThread ELSE mutex_
    /\ pc' = [pc EXCEPT ![t] = "idle"]
    /\ UNCHANGED <<instance, heap, statics, conn_str>>
    /\ UNCHANGED otherThanSingleton

\* static Logger instance; return instance;
Logger_getInstance(t) ==
    /\ pc[t] = "idle"
    /\ statics' = [statics EXCEPT !.Logger = TRUE]
    /\ ret' = [ret EXCEPT ![t].logger = LoggerAddr]
    /\ first' = IF first.logger = NullPtr
                  THEN [first EXCEPT !.logger = LoggerAddr] ELSE first
    /\ UNCHANGED <<instance, mutex_, heap, pc, conn_str>>
    /\ UNCHANGED otherThanSingleton

\* static ConfigManager instance; return instance;
ConfigManager_getInstance(t) ==
    /\ pc[t] = "idle"
    /\ statics' = [statics EXCEPT !.ConfigManager = TRUE]
    /\ ret' = [ret EXCEPT ![t].config = ConfigManagerAddr]
    /\ first' = IF first.config = NullPtr
                  THEN [first EXCEPT !.config = ConfigManagerAddr] ELSE first
    /\ UNCHANGED <<instance, mutex_, heap, pc, conn_str>>
    /\ UNCHANGED otherThanSingleton

SingletonNext ==
    \E t \in Threads :
        \/ DB_getInstance(t)
        \/ DB_Lock(t)
        \/ DB_Check(t)
        \/ DB_New(t)
        \/ DB_Return(t)
        \/ Logger_getInstance(t)
        \/ ConfigManager_getInstance(t)

(***************************************************************************)
(* BankAccount (and SecureBankAccount, whose code is the same).  Amounts   *)
(* are whole dollars.  Every call is recorded with its outcome: the        *)
(* message of the exception it threw, or the value it returned.            *)
(***************************************************************************)
MaxAmount == 2      \* the largest amount of one deposit, withdrawal or initial balance
MaxBalance == 4     \* deposits stop at this balance

Amounts == (-1)..MaxAmount
Pins == {"1234", "9999", "12"}
Holders == {"", "John Doe"}
AccountNumbers == {"123", "1234567890"}

NoBankCall ==
    [op |-> "none", inputPin |-> "", amount |-> 0, newPin |-> "",
     threw |-> "", returned |-> "none", value |-> 0]

\* the call op(...) ended by throwing an exception with message msg
Throws(op, inputPin, amount, newPin, msg) ==
    [op |-> op, inputPin |-> inputPin, amount |-> amount, newPin |-> newPin,
     threw |-> msg, returned |-> "none", value |-> 0]

\* the call op(...) returned: "void", "true", "false", or "value" with the number
Returns(op, inputPin, amount, newPin, r, v) ==
    [op |-> op, inputPin |-> inputPin, amount |-> amount, newPin |-> newPin,
     threw |-> "", returned |-> r, value |-> v]

\* the call c ends this step and the object is left as it is
Fails(c) ==
    /\ bankCall' = c
    /\ bankPrev' = bankCall
    /\ UNCHANGED <<constructed, balance, pin, isActive>>

BankInit ==
    /\ constructed = FALSE
    /\ balance = 0
    /\ pin = ""
    /\ isActive = FALSE
    /\ bankCall = NoBankCall
    /\ bankPrev = NoBankCall

\* a faulty validatePin: every PIN accepted
validatePin_Always(inputPin) == TRUE

validatePin(inputPin) == pin = inputPin

isAccountActive == isActive

BankAccount_ctor(holder, accNum, userPin, initialBalance) ==
    /\ ~constructed
    /\ UNCHANGED otherThanBank
    /\ IF holder = ""
         THEN Fails(Throws("BankAccount", userPin, initialBalance, "",
                           "Account holder name cannot be empty"))
       ELSE IF Len(accNum) < 10
         THEN Fails(Throws("BankAccount", userPin, initialBalance, "",
                           "Account number must be at least 10 digits"))
       ELSE IF Len(userPin) # 4
         THEN Fails(Throws("BankAccount", userPin, initialBalance, "",
                           "PIN must be exactly 4 digits"))
       ELSE IF initialBalance < 0
         THEN Fails(Throws("BankAccount", userPin, initialBalance, "",
                           "Initial balance cannot be negative"))
       ELSE /\ pin' = userPin
            /\ balance' = initialBalance
            /\ isActive' = TRUE
            /\ constructed' = TRUE
            /\ bankCall' = Returns("BankAccount", userPin, initialBalance, "", "void", 0)
            /\ bankPrev' = bankCall

\* a faulty getBalance: the PIN not checked
getBalance_NoPinCheck(inputPin) ==
    /\ constructed
    /\ UNCHANGED otherThanBank
    /\ IF ~isAccountActive
         THEN Fails(Throws("getBalance", inputPin, 0, "", "Account is not active"))
       ELSE Fails(Returns("getBalance", inputPin, 0, "", "value", balance))

getBalance(inputPin) ==
    /\ constructed
    /\ UNCHANGED otherThanBank
    /\ IF ~isAccountActive
         THEN Fails(Throws("getBalance", inputPin, 0, "", "Account is not active"))
       ELSE IF ~validatePin(inputPin)
         THEN Fails(Throws("getBalance", inputPin, 0, "", "Invalid PIN"))
       ELSE Fails(Returns("getBalance", inputPin, 0, "", "value", balance))

\* a faulty deposit: the active flag not checked
deposit_NoActiveCheck(amount, inputPin) ==
    /\ constructed
    /\ UNCHANGED otherThanBank
    /\ balance + amount <= MaxBalance
    /\ IF ~validatePin(inputPin)
         THEN Fails(Throws("deposit", inputPin, amount, "", "Invalid PIN"))
       ELSE IF amount <= 0
         THEN Fails(Throws("deposit", inputPin, amount, "",
                           "Deposit amount must be positive"))
       ELSE /\ balance' = balance + amount
            /\ bankCall' = Returns("deposit", inputPin, amount, "", "void", 0)
            /\ bankPrev' = bankCall
            /\ UNCHANGED <<constructed, pin, isActive>>

deposit(amount, inputPin) ==
    /\ constructed
    /\ UNCHANGED otherThanBank
    /\ balance + amount <= MaxBalance
    /\ IF ~isAccountActive
         THEN Fails(Throws("deposit", inputPin, amount, "", "Account is not active"))
       ELSE IF ~validatePin(inputPin)
         THEN Fails(Throws("deposit", inputPin, amount, "", "Invalid PIN"))
       ELSE IF amount <= 0
         THEN Fails(Throws("deposit", inputPin, amount, "",
                           "Deposit amount must be positive"))
       ELSE /\ balance' = balance + amount
            /\ bankCall' = Returns("deposit", inputPin, amount, "", "void", 0)
            /\ bankPrev' = bankCall
            /\ UNCHANGED <<constructed, pin, isActive>>

\* a faulty withdraw: the balance not compared with the amount
withdraw_NoFundsCheck(amount, inputPin) ==
    /\ constructed
    /\ UNCHANGED otherThanBank
    /\ IF ~isAccountActive
         THEN Fails(Throws("withdraw", inputPin, amount, "", "Account is not active"))
       ELSE IF ~validatePin(inputPin)
         THEN Fails(Throws("withdraw", inputPin, amount, "", "Invalid PIN"))
       ELSE IF amount <= 0
         THEN Fails(Throws("withdraw", inputPin, amount, "",
                           "Withdrawal amount must be positive"))
       ELSE /\ balance' = balance - amount
            /\ bankCall' = Returns("withdraw", inputPin, amount, "", "true", 0)
            /\ bankPrev' = bankCall
            /\ UNCHANGED <<constructed, pin, isActive>>

withdraw(amount, inputPin) ==
    /\ constructed
    /\ UNCHANGED otherThanBank
    /\ IF ~isAccountActive
         THEN Fails(Throws("withdraw", inputPin, amount, "", "Account is not active"))
       ELSE IF ~validatePin(inputPin)
         THEN Fails(Throws("withdraw", inputPin, amount, "", "Invalid PIN"))
       ELSE IF amount <= 0
         THEN Fails(Throws("withdraw", inputPin, amount, "",
                           "Withdrawal amount must be positive"))
       ELSE IF amount > balance
         THEN Fails(Returns("withdraw", inputPin, amount, "", "false", 0))
       ELSE /\ balance' = balance - amount
            /\ bankCall' = Returns("withdraw", inputPin, amount, "", "true", 0)
            /\ bankPrev' = bankCall
            /\ UNCHANGED <<constructed, pin, isActive>>

changePin(oldPin, newPin) ==
    /\ constructed
    /\ UNCHANGED otherThanBank
    /\ IF ~validatePin(oldPin)
         THEN Fails(Returns("changePin", oldPin, 0, newPin, "false", 0))
       ELSE IF Len(newPin) # 4
         THEN Fails(Returns("changePin", oldPin, 0, newPin, "false", 0))
       ELSE /\ pin' = newPin
            /\ bankCall' = Returns("changePin", oldPin, 0, newPin, "true", 0)
            /\ bankPrev' = bankCall
            /\ UNCHANGED <<constructed, balance, isActive>>

deactivateAccount(inputPin) ==
    /\ constructed
    /\ UNCHANGED otherThanBank
    /\ IF ~validatePin(inputPin)
         THEN Fails(Throws("deactivateAccount", inputPin, 0, "", "Invalid PIN"))
       ELSE /\ isActive' = FALSE
            /\ bankCall' = Returns("deactivateAccount", inputPin, 0, "", "void", 0)
            /\ bankPrev' = bankCall
            /\ UNCHANGED <<constructed, balance, pin>>

activateAccount(inputPin) ==
    /\ constructed
    /\ UNCHANGED otherThanBank
    /\ IF ~validatePin(inputPin)
         THEN Fails(Throws("activateAccount", inputPin, 0, "", "Invalid PIN"))
       ELSE /\ isActive' = TRUE
            /\ bankCall' = Returns("activateAccount", inputPin, 0, "", "void", 0)
            /\ bankPrev' = bankCall
            /\ UNCHANGED <<constructed, balance, pin>>

BankNext ==
    \/ \E holder \in Holders, accNum \in AccountNumbers, userPin \in Pins,
          initialBalance \in Amounts :
           BankAccount_ctor(holder, accNum, userPin, initialBalance)
    \/ \E inputPin \in Pins : getBalance(inputPin)
    \/ \E amount \in Amounts, inputPin \in Pins : deposit(amount, inputPin)
    \/ \E amount \in Amounts, inputPin \in Pins : withdraw(amount, inputPin)
    \/ \E oldPin \in Pins, newPin \in Pins : changePin(oldPin, newPin)
    \/ \E inputPin \in Pins : deactivateAccount(inputPin)
    \/ \E inputPin \in Pins : activateAccount(inputPin)

(***************************************************************************)
(* SafeBankAccount.  Two accounts, as in strongGuaranteeExample.  Amounts  *)
(* are whole dollars.  The one step of deposit and withdraw that can fail  *)
(* after the argument checks is the push_back of logTransaction, which     *)
(* throws std::bad_alloc when the vector or the copied string cannot be    *)
(* allocated and then leaves the vector as it was; whether it fails is the *)
(* environment's choice at each call.                                      *)
(***************************************************************************)
MaxHistory == 3     \* transaction-history entries of the two accounts together

SafeAccounts == {"ACC001", "ACC002"}
InitialBalances == {0, 2}
SafeAmounts == {0, 1, 2}

\* std::to_string(double) of a whole number: six decimals
to_string_double(amount) == to_string(amount) \o ".000000"

NoSafeCall == [op |-> "none", self |-> "", to |-> "", amount |-> 0, threw |-> ""]

\* the outcome of a member call: the object afterwards and the message of
\* the exception that left the call, "" when it returned
Outcome(acct, msg) == [acct |-> acct, threw |-> msg]

InsufficientFundsException(attempted, available) ==
    "Insufficient funds (Attempted: $" \o to_string_double(attempted)
        \o ", Available: $" \o to_string_double(available) \o ")"

logTransaction(acct, transaction, fails) ==
    IF fails
      THEN Outcome(acct, "std::bad_alloc")
    ELSE Outcome([acct EXCEPT !.transactionHistory = Append(@, transaction)], "")

\* a faulty deposit: the balance assigned before the transaction is logged
SafeBankAccount_deposit_BalanceFirst(acct, amount, fails) ==
    IF amount <= 0
      THEN Outcome(acct, "Deposit amount must be positive")
    ELSE LET newBalance == acct.balance + amount
             transaction == "Deposit: +$" \o to_string_double(amount)
         IN logTransaction([acct EXCEPT !.balance = newBalance], transaction, fails)

SafeBankAccount_deposit(acct, amount, fails) ==
    IF amount <= 0
      THEN Outcome(acct, "Deposit amount must be positive")
    ELSE LET newBalance == acct.balance + amount
             transaction == "Deposit: +$" \o to_string_double(amount)
             logged == logTransaction(acct, transaction, fails)
         IN IF logged.threw # ""
              THEN logged
            ELSE Outcome([logged.acct EXCEPT !.balance = newBalance], "")

SafeBankAccount_withdraw(acct, amount, fails) ==
    IF amount <= 0
      THEN Outcome(acct, "Withdrawal amount must be positive")
    ELSE IF amount > acct.balance
      THEN Outcome(acct, InsufficientFundsException(amount, acct.balance))
    ELSE LET newBalance == acct.balance - amount
             transaction == "Withdrawal: -$" \o to_string_double(amount)
             logged == logTransaction(acct, transaction, fails)
         IN IF logged.threw # ""
              THEN logged
            ELSE Outcome([logged.acct EXCEPT !.balance = newBalance], "")

\* transfer works on two objects, which toAccount may alias: its outcome is
\* all the accounts afterwards.  fails[i] tells whether the i-th call of
\* logTransaction that the transfer reaches fails.
SafeBankAccount_transfer(accts, self, toAccount, amount, fails) ==
    IF amount <= 0
      THEN [accounts |-> accts, threw |-> "Transfer amount must be positive"]
    ELSE IF amount > accts[self].balance
      THEN [accounts |-> accts,
            threw |-> InsufficientFundsException(amount, accts[self].balance)]
    ELSE LET withdrawn == SafeBankAccount_withdraw(accts[self], amount, fails[1])
             afterWithdraw == [accts EXCEPT ![self] = withdrawn.acct]
             deposited == SafeBankAccount_deposit(afterWithdraw[toAccount], amount,
                                                  fails[2])
             afterDeposit == [afterWithdraw EXCEPT ![toAccount] = deposited.acct]
             rolledBack == SafeBankAccount_deposit(afterDeposit[self], amount,
                                                   fails[3])
             afterRollback == [afterDeposit EXCEPT ![self] = rolledBack.acct]
         IN IF withdrawn.threw # ""
              THEN [accounts |-> afterWithdraw, threw |-> withdrawn.threw]
            ELSE IF deposited.threw = ""
              THEN [accounts |-> afterDeposit, threw |-> ""]
            ELSE IF rolledBack.threw # ""
              THEN [accounts |-> afterRollback, threw |-> rolledBack.threw]
            ELSE [accounts |-> afterRollback, threw |-> deposited.threw]

HistoryEntries(accts) ==
    Len(accts["ACC001"].transactionHistory) + Len(accts["ACC002"].transactionHistory)

\* SafeBankAccount(account, initialBalance) for each of the two accounts
SafeBankInit ==
    /\ accounts \in [SafeAccounts ->
                       [balance : InitialBalances, transactionHistory : {<<>>}]]
    /\ safeCall = NoSafeCall

SafeIdle ==
    /\ accounts = [a \in SafeAccounts |-> [balance |-> 0, transactionHistory |-> <<>>]]
    /\ safeCall = NoSafeCall

SafeDeposit(self, amount, fails) ==
    LET done == SafeBankAccount_deposit(accounts[self], amount, fails)
    IN /\ accounts' = [accounts EXCEPT ![self] = done.acct]
       /\ HistoryEntries(accounts') <= MaxHistory
       /\ safeCall' = [op |-> "deposit", self |-> self, to |-> "",
                       amount |-> amount, threw |-> done.threw]
       /\ UNCHANGED otherThanSafe

SafeWithdraw(self, amount, fails) ==
    LET done == SafeBankAccount_withdraw(accounts[self], amount, fails)
    IN /\ accounts' = [accounts EXCEPT ![self] = done.acct]
       /\ HistoryEntries(accounts') <= MaxHistory
       /\ safeCall' = [op |-> "withdraw", self |-> self, to |-> "",
                       amount |-> amount, threw |-> done.threw]
       /\ UNCHANGED otherThanSafe

SafeTransfer(self, toAccount, amount, fails) ==
    LET done == SafeBankAccount_transfer(accounts, self, toAccount, amount, fails)
    IN /\ accounts' = done.accounts
       /\ HistoryEntries(accounts') <= MaxHistory
       /\ safeCall' = [op |-> "transfer", self |-> self, to |-> toAccount,
                       amount |-> amount, threw |-> done.threw]
       /\ UNCHANGED otherThanSafe

SafeNext ==
    \/ \E self \in SafeAccounts, amount \in SafeAmounts, fails \in BOOLEAN :
           SafeDeposit(self, amount, fails)
    \/ \E self \in SafeAccounts, amount \in SafeAmounts, fails \in BOOLEAN :
           SafeWithdraw(self, amount, fails)
    \/ \E self \in SafeAccounts, toAccount \in SafeAccounts, amount \in SafeAmounts,
          fails \in [1..3 -> BOOLEAN] :
           SafeTransfer(self, toAccount, amount, fails)

(***************************************************************************)
(* Ownership of the decorated objects.  The caller holds its objects in    *)
(* std::unique_ptr variables; a decorator holds the object it wraps in its *)
(* std::unique_ptr member (`coffee', `processor'), here the field member.  *)
(* An object is a record at an address; the allocator hands out the lowest *)
(* free address.  The statements are those of the demonstration: make a    *)
(* base object, wrap the object of one handle into a new decorator that is *)
(* stored in a handle, and let a handle go out of scope.                   *)
(***************************************************************************)
MaxObjects == 3     \* objects alive at one time

CoffeeHandles == {"coffee1", "coffee2"}
ProcessorHandles == {"processor1", "processor2"}
Handles == CoffeeHandles \cup ProcessorHandles

OwnedCoffeeDecorators == {"MilkDecorator", "SugarDecorator"}
OwnedTextDecorators == {"UpperCaseDecorator"}

\* the classes a handle of this type can be given: bases and decorators
BasesFor(h) == IF h \in CoffeeHandles THEN {"SimpleCoffee"} ELSE {"PlainTextProcessor"}
DecoratorsFor(h) ==
    IF h \in CoffeeHandles THEN OwnedCoffeeDecorators ELSE OwnedTextDecorators

\* both handles point to Coffee, or both to TextProcessor
SameType(dst, src) == (dst \in CoffeeHandles) <=> (src \in CoffeeHandles)

NoOwnCall == [op |-> "none", dst |-> "", src |-> "", moved |-> NullPtr]

Allocated(objs) == DOMAIN objs

\* operator new: the lowest free address
NewAddress(objs) == CHOOSE a \in 1..MaxObjects :
                        /\ a \notin Allocated(objs)
                        /\ \A b \in 1..MaxObjects : b \notin Allocated(objs) => a <= b

\* the objects that deleting the object at address a destroys: the object
\* and, through the destructor of its member, all that it wraps
RECURSIVE Destroyed(_, _)
Destroyed(objs, a) ==
    IF a \notin Allocated(objs)
      THEN {}
    ELSE {a} \cup Destroyed([b \in Allocated(objs) \ {a} |-> objs[b]], objs[a].member)

Delete(objs, a) == [b \in Allocated(objs) \ Destroyed(objs, a) |-> objs[b]]

OwnInit ==
    /\ objects = << >>
    /\ handles = [h \in Handles |-> NullPtr]
    /\ ownCall = NoOwnCall

\* h = std::make_unique<Base>(): the object h held before is deleted
MakeBase(h, class) ==
    /\ Cardinality(Allocated(objects)) < MaxObjects
    /\ LET a == NewAddress(objects)
           made == objects @@ (a :> [class |-> class, member |-> NullPtr])
       IN /\ objects' = Delete(made, handles[h])
          /\ handles' = [handles EXCEPT ![h] = a]
    /\ ownCall' = [op |-> "make", dst |-> h, src |-> "", moved |-> NullPtr]
    /\ UNCHANGED otherThanOwn

\* a faulty wrap: the decorator built from a copy of the pointer, src left as it was
Wrap_SourceKept(dst, src, class) ==
    /\ SameType(dst, src)
    /\ handles[src] # NullPtr
    /\ Cardinality(Allocated(objects)) < MaxObjects
    /\ LET a == NewAddress(objects)
           made == objects @@ (a :> [class |-> class, member |-> handles[src]])
           moved == handles
       IN /\ objects' = Delete(made, moved[dst])
          /\ handles' = [moved EXCEPT ![dst] = a]
    /\ ownCall' = [op |-> "wrap", dst |-> dst, src |-> src, moved |-> handles[src]]
    /\ UNCHANGED otherThanOwn

\* dst = std::make_unique<Decorator>(std::move(src)): the constructor's
\* parameter takes the pointer out of src, the member takes it out of the
\* parameter, and the assignment deletes what dst held and stores the decorator
Wrap(dst, src, class) ==
    /\ SameType(dst, src)
    /\ handles[src] # NullPtr
    /\ Cardinality(Allocated(objects)) < MaxObjects
    /\ LET a == NewAddress(objects)
           made == objects @@ (a :> [class |-> class, member |-> handles[src]])
           moved == [handles EXCEPT ![src] = NullPtr]
       IN /\ objects' = Delete(made, moved[dst])
          /\ handles' = [moved EXCEPT ![dst] = a]
    /\ ownCall' = [op |-> "wrap", dst |-> dst, src |-> src, moved |-> handles[src]]
    /\ UNCHANGED otherThanOwn

\* h goes out of scope: the destructor of the handle deletes its object
LeaveScope(h) ==
    /\ handles[h] # NullPtr
    /\ objects' = Delete(objects, handles[h])
    /\ handles' = [handles EXCEPT ![h] = NullPtr]
    /\ ownCall' = [op |-> "leave", dst |-> h, src |-> "", moved |-> NullPtr]
    /\ UNCHANGED otherThanOwn

OwnNext ==
    \/ \E h \in Handles : \E class \in BasesFor(h) : MakeBase(h, class)
    \/ \E dst \in Handles, src \in Handles :
           \E class \in DecoratorsFor(dst) : Wrap(dst, src, class)
    \/ \E h \in Handles : LeaveScope(h)

(***************************************************************************)
(* Calculator.  Its functions are static and keep no state: the model      *)
(* records the last call with its arguments and outcome.                   *)
(*                                                                         *)
(* factorial multiplies doubles.  A double that holds a whole number is    *)
(* modelled by that number, written as a numeral in base 2^LimbBits with   *)
(* the lowest digit first and no leading zero (<<>> is 0): a product keeps *)
(* DBL_MANT_DIG significant bits and is rounded to nearest, ties to even.  *)
(* The range of the exponent is not reached by the arguments of the model. *)
(*                                                                         *)
(* isPrime computes with int, which has 32 bits: i * i overflows for       *)
(* i > 46340, and signed overflow is undefined behaviour.                  *)
(***************************************************************************)
MaxFactorialArg == 24   \* the largest argument of factorial
MaxPrimeArg == 100      \* the largest of the small arguments of isPrime
MaxOperand == 2         \* the largest magnitude of an operand of divide

INT_MAX == 2147483647   \* std::numeric_limits<int>::max()
DBL_MANT_DIG == 53      \* significant bits of a double
LimbBits == 16          \* bits of one digit of a numeral
Base == 2^LimbBits

FactorialArgs == (-3)..MaxFactorialArg
PrimeArgs == ((-3)..MaxPrimeArg) \cup {46337 * 46337, INT_MAX - 1, INT_MAX}
\* a double operand of divide: sign and magnitude, so that -0.0 is one of them
Operands == [sign : {1, -1}, mag : 0..MaxOperand]

NoCalcCall == [op |-> "none", args |-> <<>>, ended |-> "none", what |-> "", value |-> <<>>]

\* the call ended by throwing std::runtime_error(what)
CalcThrows(op, args, what) ==
    [op |-> op, args |-> args, ended |-> "threw", what |-> what, value |-> <<>>]

CalcReturns(op, args, value) ==
    [op |-> op, args |-> args, ended |-> "returned", what |-> "", value |-> value]

\* the call ran into undefined behaviour and did not return
CalcUndefined(op, args) ==
    [op |-> op, args |-> args, ended |-> "undefined", what |-> "", value |-> <<>>]

\* the numeral of a natural number
RECURSIVE Numeral(_)
Numeral(n) == IF n = 0 THEN <<>> ELSE <<n % Base>> \o Numeral(n \div Base)

\* x * k + carry, exactly
RECURSIVE Times(_, _, _)
Times(x, k, carry) ==
    IF x = <<>>
      THEN Numeral(carry)
    ELSE LET t == x[1] * k + carry
         IN <<t % Base>> \o Times(Tail(x), k, t \div Base)

\* x + amount * Base^(j - 1), for j <= Len(x) + 1
RECURSIVE Plus(_, _, _)
Plus(x, j, amount) ==
    IF amount = 0 THEN x
    ELSE IF j > Len(x) THEN Append(x, amount)
    ELSE LET t == x[j] + amount
         IN Plus([x EXCEPT ![j] = t % Base], j + 1, t \div Base)

\* the number of bits of one digit, and of a number
DigitBits(d) == CHOOSE b \in 0..LimbBits : d < 2^b /\ (b = 0 \/ d >= 2^(b - 1))
Bits(x) == IF x = <<>> THEN 0 ELSE LimbBits * (Len(x) - 1) + DigitBits(Last(x))

\* the nearest double of a whole number, ties to even: the s bits below
\* the DBL_MANT_DIG highest are q whole digits and the r low bits of the
\* next digit; they are dropped, and the rest goes up by one unit when
\* they are more than half a unit, or half a unit with the rest odd
RoundToDouble(x) ==
    IF Bits(x) <= DBL_MANT_DIG
      THEN x
    ELSE LET s == Bits(x) - DBL_MANT_DIG
             q == s \div LimbBits
             r == s % LimbBits
             cut == x[q + 1]
             low == cut % 2^r
             top == IF r = 0 THEN x[q] ELSE low
             half == IF r = 0 THEN 2^(LimbBits - 1) ELSE 2^(r - 1)
             below == IF r = 0 THEN q - 1 ELSE q
             sticky == \E j \in 1..below : x[j] # 0
             odd == (cut \div 2^r) % 2 = 1
             up == top > half \/ (top = half /\ (sticky \/ odd))
             kept == [j \in 1..Len(x) |->
                         IF j <= q THEN 0 ELSE IF j = q + 1 THEN cut - low ELSE x[j]]
         IN IF up THEN Plus(kept, q + 1, 2^r) ELSE kept

\* result *= i
TimesEquals(result, i) == RoundToDouble(Times(result, i, 0))

\* a faulty loop: it stops one short of n
RECURSIVE FactorialLoop_StopsShort(_, _)
FactorialLoop_StopsShort(loop, n) ==
    IF loop.i < n
      THEN FactorialLoop_StopsShort([result |-> TimesEquals(loop.result, loop.i),
                                     i |-> loop.i + 1], n)
    ELSE loop.result

\* for (int i = 2; i <= n; ++i) result *= i; with loop the two variables
RECURSIVE FactorialLoop(_, _)
FactorialLoop(loop, n) ==
    IF loop.i <= n
      THEN FactorialLoop([result |-> TimesEquals(loop.result, loop.i),
                          i |-> loop.i + 1], n)
    ELSE loop.result

\* a faulty factorial: no check of the sign
Calculator_factorial_NoSignCheck(n) ==
    IF n = 0 \/ n = 1
      THEN CalcReturns("factorial", <<n>>, Numeral(1))
    ELSE CalcReturns("factorial", <<n>>,
                     FactorialLoop([result |-> Numeral(1), i |-> 2], n))

Calculator_factorial(n) ==
    IF n < 0
      THEN CalcThrows("factorial", <<n>>, "Factorial of negative number is undefined!")
    ELSE IF n = 0 \/ n = 1
      THEN CalcReturns("factorial", <<n>>, Numeral(1))
    ELSE CalcReturns("factorial", <<n>>,
                     FactorialLoop([result |-> Numeral(1), i |-> 2], n))

\* the values of i that the loop of isPrime reaches with a square that the
\* int holds: i = 5, 11, 17, ... as long as i * i <= n
LoopValues(n) ==
    {i \in 5..(IF n < 2^16 THEN n ELSE 2^16) :
         i % 6 = 5 /\ i <= INT_MAX \div i /\ i * i <= n}

\* how the loop of isPrime ends: it returns false at the first i with
\* n % i == 0 or n % (i + 2) == 0, returns true when i * i > n, and is
\* undefined when it comes to evaluate an i * i that overflows
isPrimeLoop(n) ==
    LET reached == LoopValues(n)
        next == 5 + 6 * Cardinality(reached)
    IN IF \E i \in reached : n % i = 0 \/ n % (i + 2) = 0 THEN "false"
       ELSE IF next > INT_MAX \div next THEN "undefined"
       ELSE "true"

\* what isPrime(n) does: "true", "false" or "undefined"
Calculator_isPrime(n) ==
    IF n <= 1 THEN "false"
    ELSE IF n <= 3 THEN "true"
    ELSE IF n % 2 = 0 \/ n % 3 = 0 THEN "false"
    ELSE isPrimeLoop(n)

\* b == 0 holds for 0.0 and for -0.0
IsZero(b) == b.mag = 0

\* a faulty divide: no check of the divisor
Calculator_divide_NoZeroCheck(a, b) ==
    CalcReturns("divide", <<a, b>>,
                [sign |-> a.sign * b.sign, num |-> a.mag, den |-> b.mag])

\* the quotient is kept as the fraction num / den with its sign
Calculator_divide(a, b) ==
    IF IsZero(b)
      THEN CalcThrows("divide", <<a, b>>, "Division by zero!")
    ELSE CalcReturns("divide", <<a, b>>,
                     [sign |-> a.sign * b.sign, num |-> a.mag, den |-> b.mag])

CalcInit == calcCall = NoCalcCall

Factorial(n) ==
    /\ calcCall' = Calculator_factorial(n)
    /\ UNCHANGED otherThanCalc

\* undefined behaviour: the call may return either value or not return
IsPrime(n) ==
    /\ IF Calculator_isPrime(n) = "undefined"
         THEN \/ calcCall' = CalcReturns("isPrime", <<n>>, TRUE)
              \/ calcCall' = CalcReturns("isPrime", <<n>>, FALSE)
              \/ calcCall' = CalcUndefined("isPrime", <<n>>)
       ELSE calcCall' = CalcReturns("isPrime", <<n>>, Calculator_isPrime(n) = "true")
    /\ UNCHANGED otherThanCalc

Divide(a, b) ==
    /\ calcCall' = Calculator_divide(a, b)
    /\ UNCHANGED otherThanCalc

CalcNext ==
    \/ \E n \in FactorialArgs : Factorial(n)
    \/ \E n \in PrimeArgs : IsPrime(n)
    \/ \E a \in Operands, b \in Operands : Divide(a, b)

(***************************************************************************)
(* PaymentAdapter.  The adapter owns one LegacyPaymentGateway, whose only  *)
(* effect is its output: the model keeps the makePayment calls it has      *)
(* received.  Amounts are whole numbers.                                   *)
(***************************************************************************)
MaxPayments == 3    \* calls of makePayment the gateway receives

Currencies == {"USD", "EUR"}
PayAmounts == {0, 100, 250}
PayMethods == {"Credit Card", "Debit Card"}
TransactionIds == {"TXN-002"}

NoPayCall == [op |-> "none", amount |-> 0, arg |-> "", result |-> ""]

AdapterInit ==
    /\ legacyGateway = FALSE
    /\ currency = ""
    /\ payments = <<>>
    /\ payCall = NoPayCall

\* what the gateway has received after makePayment(amount, currency)
LegacyPaymentGateway_makePayment(received, amount, curr) ==
    Append(received, [amount |-> amount, currency |-> curr])

LegacyPaymentGateway_checkStatus(transactionId) == TRUE

\* PaymentAdapter(std::make_unique<LegacyPaymentGateway>(), curr)
PaymentAdapter_ctor(curr) ==
    /\ ~legacyGateway
    /\ legacyGateway' = TRUE
    /\ currency' = curr
    /\ UNCHANGED <<payments, payCall>>
    /\ UNCHANGED otherThanAdapter

\* a faulty processPayment: the method handed on in place of the currency
processPayment_MethodAsCurrency(amount, method) ==
    /\ legacyGateway
    /\ Len(payments) < MaxPayments
    /\ payments' = LegacyPaymentGateway_makePayment(payments, amount, method)
    /\ payCall' = [op |-> "processPayment", amount |-> amount, arg |-> method,
                   result |-> "true"]
    /\ UNCHANGED <<legacyGateway, currency>>
    /\ UNCHANGED otherThanAdapter

processPayment(amount, method) ==
    /\ legacyGateway
    /\ Len(payments) < MaxPayments
    /\ payments' = LegacyPaymentGateway_makePayment(payments, amount, currency)
    /\ payCall' = [op |-> "processPayment", amount |-> amount, arg |-> method,
                   result |-> "true"]
    /\ UNCHANGED <<legacyGateway, currency>>
    /\ UNCHANGED otherThanAdapter

getTransactionStatus(id) ==
    /\ legacyGateway
    /\ payCall' = [op |-> "getTransactionStatus", amount |-> 0, arg |-> id,
                   result |-> IF LegacyPaymentGateway_checkStatus(id)
                                THEN "SUCCESS" ELSE "FAILED"]
    /\ UNCHANGED <<legacyGateway, currency, payments>>
    /\ UNCHANGED otherThanAdapter

AdapterNext ==
    \/ \E curr \in Currencies : PaymentAdapter_ctor(curr)
    \/ \E amount \in PayAmounts, method \in PayMethods : processPayment(amount, method)
    \/ \E id \in TransactionIds : getTransactionStatus(id)

(***************************************************************************)
(* The demo mains that wrap their body in try / catch (const               *)
(* std::exception&).  The body is a row of sections; a section completes   *)
(* or throws.  Some sections have a try block of their own, which catches  *)
(* what is thrown inside it.  An exception that is no std::exception       *)
(* passes every handler and ends the program in std::terminate.            *)
(***************************************************************************)
Programs == {"main_guaranteed_working", "master_demo", "test_class_object"}

\* the numbered sections of each body
Sections(p) ==
    CASE p = "main_guaranteed_working" -> 5
      [] p = "master_demo" -> 6
      [] p = "test_class_object" -> 16

\* the sections with a try block inside, and those that are one try block
InnerTry(p) ==
    CASE p = "main_guaranteed_working" -> {2}
      [] p = "master_demo" -> {2, 6}
      [] p = "test_class_object" -> {}
WhollyTried(p) == IF p = "master_demo" THEN {2} ELSE {}

ExceptionTypes == {"std::runtime_error", "std::invalid_argument", "std::bad_alloc", "int"}

\* catch (const std::exception&) takes the classes derived from it
IsStdException(t) == t # "int"

MainInit ==
    /\ program = ""
    /\ mainPc = "none"
    /\ section = 0
    /\ thrown = ""
    /\ localCatches = 0
    /\ exitCode = -1

StartMain(p) ==
    /\ program = ""
    /\ program' = p
    /\ mainPc' = "body"
    /\ section' = 1
    /\ UNCHANGED <<thrown, localCatches, exitCode>>
    /\ UNCHANGED otherThanMain

\* the section runs to its end
SectionCompletes ==
    /\ mainPc = "body"
    /\ section <= Sections(program)
    /\ section' = section + 1
    /\ UNCHANGED <<program, mainPc, thrown, localCatches, exitCode>>
    /\ UNCHANGED otherThanMain

\* a statement inside the try block of the section throws: caught there
ThrowInsideTry(t) ==
    /\ mainPc = "body"
    /\ section \in InnerTry(program)
    /\ IsStdException(t)
    /\ localCatches = 0
    /\ localCatches' = 1
    /\ UNCHANGED <<program, mainPc, section, thrown, exitCode>>
    /\ UNCHANGED otherThanMain

\* a statement throws and no try block inside the body catches it
ThrowFromBody(t) ==
    /\ mainPc = "body"
    /\ section <= Sections(program)
    /\ section \in WhollyTried(program) => ~IsStdException(t)
    /\ thrown' = t
    /\ mainPc' = IF IsStdException(t) THEN "catch" ELSE "terminated"
    /\ UNCHANGED <<program, section, localCatches, exitCode>>
    /\ UNCHANGED otherThanMain

\* the end of the try block is reached: return 0
ReturnAfterBody ==
    /\ mainPc = "body"
    /\ section = Sections(program) + 1
    /\ mainPc' = "returned"
    /\ exitCode' = 0
    /\ UNCHANGED <<program, section, thrown, localCatches>>
    /\ UNCHANGED otherThanMain

\* a faulty handler: return 0
CatchInMain_ReturnsZero ==
    /\ mainPc = "catch"
    /\ mainPc' = "returned"
    /\ exitCode' = 0
    /\ UNCHANGED <<program, section, thrown, localCatches>>
    /\ UNCHANGED otherThanMain

\* the handler of main: print e.what() and return 1
CatchInMain ==
    /\ mainPc = "catch"
    /\ mainPc' = "returned"
    /\ exitCode' = 1
    /\ UNCHANGED <<program, section, thrown, localCatches>>
    /\ UNCHANGED otherThanMain

MainNext ==
    \/ \E p \in Programs : StartMain(p)
    \/ SectionCompletes
    \/ \E t \in ExceptionTypes : ThrowInsideTry(t)
    \/ \E t \in ExceptionTypes : ThrowFromBody(t)
    \/ ReturnAfterBody
    \/ CatchInMain

(***************************************************************************)
(* The classic observer: Subject keeps a vector of Observer*.  attach      *)
(* pushes back without looking for the pointer, detach erases the first    *)
(* occurrence std::find returns, notify calls update(state) on every       *)
(* element of the vector in order.                                         *)
(***************************************************************************)
MaxObservers == 3

ObserverNames == {"emailNotifier", "smsNotifier", "pushNotifier"}
Messages == {"Your order has been shipped!", "Payment successful!"}

NoSubjectCall == [op |-> "none", arg |-> ""]

ObserverInit ==
    /\ observers = <<>>
    /\ subjectState = ""
    /\ updates = <<>>
    /\ attachedNow = <<>>
    /\ subjectCall = NoSubjectCall

\* std::find: the first index holding the value, Len + 1 for end()
Find(vec, value) ==
    IF \E i \in 1..Len(vec) : vec[i] = value
    THEN CHOOSE i \in 1..Len(vec) : vec[i] = value /\ \A j \in 1..(i - 1) : vec[j] # value
    ELSE Len(vec) + 1

\* vector::erase(it)
Erase(vec, it) == [i \in 1..(Len(vec) - 1) |-> IF i < it THEN vec[i] ELSE vec[i + 1]]

Subject_attach(vec, observer) == Append(vec, observer)

Subject_detach(vec, observer) ==
    IF Find(vec, observer) # Len(vec) + 1 THEN Erase(vec, Find(vec, observer)) ELSE vec

\* the update() calls notify makes
Subject_notify(vec, message) ==
    [i \in 1..Len(vec) |-> [observer |-> vec[i], message |-> message]]

Attach(observer) ==
    /\ Len(observers) < MaxObservers
    /\ observers' = Subject_attach(observers, observer)
    /\ attachedNow' = IF Find(attachedNow, observer) = Len(attachedNow) + 1
                      THEN Append(attachedNow, observer)
                      ELSE attachedNow
    /\ subjectCall' = [op |-> "attach", arg |-> observer]
    /\ UNCHANGED <<subjectState, updates>>
    /\ UNCHANGED otherThanObserver

Detach(observer) ==
    /\ observers' = Subject_detach(observers, observer)
    /\ attachedNow' = Subject_detach(attachedNow, observer)
    /\ subjectCall' = [op |-> "detach", arg |-> observer]
    /\ UNCHANGED <<subjectState, updates>>
    /\ UNCHANGED otherThanObserver

SetState(newState) ==
    /\ subjectState' = newState
    /\ updates' = Subject_notify(observers, newState)
    /\ subjectCall' = [op |-> "setState", arg |-> newState]
    /\ UNCHANGED <<observers, attachedNow>>
    /\ UNCHANGED otherThanObserver

ObserverNext ==
    \/ \E o \in ObserverNames : Attach(o)
    \/ \E o \in ObserverNames : Detach(o)
    \/ \E s \in Messages : SetState(s)

(***************************************************************************)
(* The sorting strategies of strategy.hpp on vector<int>.  Index k of the  *)
(* vector is element k + 1 of the sequence.  A sort yields the vector and  *)
(* whether an access left the vector (undefined behaviour).                *)
(***************************************************************************)
MaxVectorLen == 3
MaxElement == 2

Vectors == UNION {[1..n -> 0..MaxElement] : n \in 0..MaxVectorLen}
SortStrategies == {"Bubble Sort", "Quick Sort", "STL Sort"}

\* std::swap(data[a], data[b])
SwapAt(vec, a, b) ==
    [k \in 1..Len(vec) |-> IF k = a + 1 THEN vec[b + 1] ELSE IF k = b + 1 THEN vec[a + 1] ELSE vec[k]]

InBounds(vec, k) == k >= 0 /\ k < Len(vec)

\* i < n - m in size_t: n - m wraps to 2^64 - (m - n) when n < m, which is
\* above every index
LessThanDifference(i, n, m) == IF n >= m THEN i < n - m ELSE TRUE

\* the inner loop of BubbleSort::sort from index j on
RECURSIVE BubbleInner(_, _)
BubbleInner(loop, n) ==
    IF ~LessThanDifference(loop.j, n, loop.i + 1) THEN loop
    ELSE IF ~InBounds(loop.data, loop.j) \/ ~InBounds(loop.data, loop.j + 1)
         THEN [loop EXCEPT !.undefined = TRUE]
         ELSE BubbleInner([loop EXCEPT
                  !.data = IF loop.data[loop.j + 1] > loop.data[loop.j + 2]
                           THEN SwapAt(loop.data, loop.j, loop.j + 1)
                           ELSE loop.data,
                  !.j = loop.j + 1], n)

\* the outer loop of BubbleSort::sort from pass i on
RECURSIVE BubbleOuter(_, _)
BubbleOuter(loop, n) ==
    IF ~LessThanDifference(loop.i, n, 1) THEN loop
    ELSE LET pass == BubbleInner([loop EXCEPT !.j = 0], n)
         IN  IF pass.undefined THEN pass
             ELSE BubbleOuter([pass EXCEPT !.i = loop.i + 1], n)

BubbleSort_sort(vec) ==
    LET done == BubbleOuter([data |-> vec, i |-> 0, j |-> 0, undefined |-> FALSE], Len(vec))
    IN  [data |-> done.data, undefined |-> done.undefined]

\* the loop of QuickSort::partition from j on; pivot is data[high]
RECURSIVE PartitionLoop(_, _)
PartitionLoop(loop, high) ==
    IF loop.j > high - 1 THEN loop
    ELSE IF loop.data[loop.j + 1] < loop.data[high + 1]
         THEN PartitionLoop([data |-> SwapAt(loop.data, loop.i + 1, loop.j),
                             i |-> loop.i + 1, j |-> loop.j + 1], high)
         ELSE PartitionLoop([loop EXCEPT !.j = loop.j + 1], high)

\* QuickSort::partition: the vector after it and the index it returns
partition(vec, low, high) ==
    LET done == PartitionLoop([data |-> vec, i |-> low - 1, j |-> low], high)
    IN  [data |-> SwapAt(done.data, done.i + 1, high), pi |-> done.i + 1]

RECURSIVE quickSortHelper(_, _, _)
quickSortHelper(vec, low, high) ==
    IF low < high
    THEN LET p == partition(vec, low, high)
         IN  quickSortHelper(quickSortHelper(p.data, low, p.pi - 1), p.pi + 1, high)
    ELSE vec

QuickSort_sort(vec) == [data |-> quickSortHelper(vec, 0, Len(vec) - 1), undefined |-> FALSE]

\* std::sort, by its contract: the ascending arrangement of the elements
RECURSIVE InsertSorted(_, _)
InsertSorted(vec, x) ==
    IF vec = <<>> THEN <<x>>
    ELSE IF x <= Head(vec) THEN <<x>> \o vec
    ELSE <<Head(vec)>> \o InsertSorted(Tail(vec), x)

RECURSIVE std_sort(_)
std_sort(vec) == IF vec = <<>> THEN <<>> ELSE InsertSorted(std_sort(Tail(vec)), Head(vec))

STLSort_sort(vec) == [data |-> std_sort(vec), undefined |-> FALSE]

SortStrategy_sort(name, vec) ==
    CASE name = "Bubble Sort" -> BubbleSort_sort(vec)
      [] name = "Quick Sort" -> QuickSort_sort(vec)
      [] name = "STL Sort" -> STLSort_sort(vec)

NoSortCall == [op |-> "none", input |-> <<>>, outcome |-> "none"]

SortInit ==
    /\ sortStrategy = ""
    /\ data = <<>>
    /\ sortCall = NoSortCall

setStrategy(newStrategy) ==
    /\ sortStrategy' = newStrategy
    /\ sortCall' = [op |-> "setStrategy", input |-> <<>>, outcome |-> "returned"]
    /\ UNCHANGED data
    /\ UNCHANGED otherThanSort

\* performSort(input): nothing without a strategy; a sort that reads outside
\* the vector may end the program or return
performSort(input) ==
    /\ \/ /\ sortStrategy = ""
          /\ data' = input
          /\ sortCall' = [op |-> "performSort", input |-> input, outcome |-> "no strategy"]
       \/ /\ sortStrategy # ""
          /\ ~SortStrategy_sort(sortStrategy, input).undefined
          /\ data' = SortStrategy_sort(sortStrategy, input).data
          /\ sortCall' = [op |-> "performSort", input |-> input, outcome |-> "returned"]
       \/ /\ sortStrategy # ""
          /\ SortStrategy_sort(sortStrategy, input).undefined
          /\ data' = SortStrategy_sort(sortStrategy, input).data
          /\ \E end \in {"returned", "crashed"} :
                sortCall' = [op |-> "performSort", input |-> input, outcome |-> end]
    /\ UNCHANGED sortStrategy
    /\ UNCHANGED otherThanSort

SortNext ==
    \/ \E s \in SortStrategies : setStrategy(s)
    \/ \E v \in Vectors : performSort(v)

(***************************************************************************)
(* The compression strategies of strategy.hpp.  A std::string is the       *)
(* sequence of its characters.  compress wraps the data in a start and an  *)
(* end marker; decompress compares substr(0, 5) and substr(length() - 6)   *)
(* with the markers.  substr throws std::out_of_range when its position    *)
(* is beyond the length.                                                   *)
(***************************************************************************)
MaxPieces == 2

CompressionTypes == {"ZIP", "RAR"}

StartMarker(type) ==
    IF type = "ZIP" THEN <<"[", "Z", "I", "P", "]">> ELSE <<"[", "R", "A", "R", "]">>
EndMarker(type) ==
    IF type = "ZIP" THEN <<"[", "/", "Z", "I", "P", "]">> ELSE <<"[", "/", "R", "A", "R", "]">>

\* the strings handed to the context: rows of markers and letters, cut anywhere
Pieces == {StartMarker(t) : t \in CompressionTypes} \cup {EndMarker(t) : t \in CompressionTypes} \cup {<<"a">>}

RECURSIVE Rows(_)
Rows(n) == IF n = 0 THEN {<<>>} ELSE Rows(n - 1) \cup {r \o p : r \in Rows(n - 1), p \in Pieces}

Strings == UNION {{SubSeq(r, 1, n) : n \in 0..Len(r)} : r \in Rows(MaxPieces)}

\* s.substr(pos, count) for pos <= s.length(): count is cut to what is left
substr(s, pos, count) ==
    SubSeq(s, pos + 1, IF pos + count > Len(s) THEN Len(s) ELSE pos + count)

\* a value of type size_t above every length, for a difference that wraps
npos == 2147483647

\* a - b in size_t
SizeMinus(a, b) == IF a >= b THEN a - b ELSE npos

Compress(type, s) == StartMarker(type) \o s \o EndMarker(type)

\* ZipCompression::decompress and RARCompression::decompress
Decompress(type, s) ==
    IF substr(s, 0, 5) = StartMarker(type)
    THEN IF SizeMinus(Len(s), 6) > Len(s)
         THEN [outcome |-> "std::out_of_range", result |-> <<>>]
         ELSE IF substr(s, SizeMinus(Len(s), 6), npos - Len(s)) = EndMarker(type)
              THEN [outcome |-> "returned", result |-> substr(s, 5, SizeMinus(Len(s), 11))]
              ELSE [outcome |-> "returned", result |-> s]
    ELSE [outcome |-> "returned", result |-> s]

NoCompressionCall == [op |-> "none", input |-> <<>>, outcome |-> "none", result |-> <<>>]

CompressionInit ==
    /\ compressionStrategy = ""
    /\ compressionCall = NoCompressionCall

setCompressionStrategy(newStrategy) ==
    /\ compressionStrategy' = newStrategy
    /\ compressionCall' = [op |-> "setCompressionStrategy", input |-> <<>>,
                           outcome |-> "returned", result |-> <<>>]
    /\ UNCHANGED otherThanCompression

compressFile(s) ==
    /\ compressionCall' = [op |-> "compressFile", input |-> s, outcome |-> "returned",
                           result |-> IF compressionStrategy = "" THEN s
                                      ELSE Compress(compressionStrategy, s)]
    /\ UNCHANGED compressionStrategy
    /\ UNCHANGED otherThanCompression

decompressFile(s) ==
    /\ compressionCall' =
          IF compressionStrategy = ""
          THEN [op |-> "decompressFile", input |-> s, outcome |-> "returned", result |-> s]
          ELSE [op |-> "decompressFile", input |-> s,
                outcome |-> Decompress(compressionStrategy, s).outcome,
                result |-> Decompress(compressionStrategy, s).result]
    /\ UNCHANGED compressionStrategy
    /\ UNCHANGED otherThanCompression

CompressionNext ==
    \/ \E t \in CompressionTypes : setCompressionStrategy(t)
    \/ \E s \in Strings : compressFile(s)
    \/ \E s \in Strings : decompressFile(s)

(***************************************************************************)
(* Vehicle and its static counter.  The constructor increments             *)
(* totalVehicles and the destructor decrements it.  Vehicle declares no    *)
(* copy constructor, so the compiler's member-wise one copies brand,       *)
(* model, year and price and leaves the counter alone.                     *)
(***************************************************************************)
MaxVehicles == 3

VehicleClasses == {"Car", "Motorcycle", "SportsCar"}

VehicleInit ==
    /\ vehicles = <<>>
    /\ totalVehicles = 0

\* Vehicle(b, m, y, p), run by the constructor of every derived class
Vehicle_ctor(class) ==
    /\ Len(vehicles) < MaxVehicles
    /\ vehicles' = Append(vehicles, [class |-> class, made |-> "constructed", alive |-> TRUE])
    /\ totalVehicles' = totalVehicles + 1
    /\ UNCHANGED otherThanVehicle

\* the implicit Vehicle(const Vehicle&), run when a derived object is copied
Vehicle_copy(k) ==
    /\ Len(vehicles) < MaxVehicles
    /\ k \in 1..Len(vehicles)
    /\ vehicles[k].alive
    /\ vehicles' = Append(vehicles, [class |-> vehicles[k].class, made |-> "copied", alive |-> TRUE])
    /\ UNCHANGED totalVehicles
    /\ UNCHANGED otherThanVehicle

\* ~Vehicle()
Vehicle_dtor(k) ==
    /\ k \in 1..Len(vehicles)
    /\ vehicles[k].alive
    /\ vehicles' = [vehicles EXCEPT ![k].alive = FALSE]
    /\ totalVehicles' = totalVehicles - 1
    /\ UNCHANGED otherThanVehicle

getTotalVehicles == totalVehicles

VehicleNext ==
    \/ \E c \in VehicleClasses : Vehicle_ctor(c)
    \/ \E k \in 1..MaxVehicles : Vehicle_copy(k)
    \/ \E k \in 1..MaxVehicles : Vehicle_dtor(k)

(***************************************************************************)
(* DatabaseConnection and its two implementations.  MySQLConnection keeps  *)
(* the open transaction in inTransaction, PostgreSQLConnection in a        *)
(* non-empty transactionId.  A member function is an operator from the     *)
(* object to the object after the call and the value returned.             *)
(***************************************************************************)
DatabaseTypes == {"MySQL", "PostgreSQL"}

\* "TXN_" + std::to_string(rand() % 10000), for two values of rand()
TransactionNames == {"TXN_7", "TXN_4211"}

SqlQueries == {"SHOW TABLES", "SELECT * FROM users", "UPDATE accounts SET balance = 0"}

NoConnection ==
    [databaseType |-> "", isConnected |-> FALSE, inTransaction |-> FALSE,
     transactionId |-> "", queryResults |-> <<>>]

NoDbCall == [op |-> "none", arg |-> "", wasConnected |-> FALSE, result |-> FALSE, log |-> <<>>]

DatabaseInit ==
    /\ connection = NoConnection
    /\ dbCall = NoDbCall

\* the transaction the object holds open
TransactionOpen(c) ==
    IF c.databaseType = "MySQL" THEN c.inTransaction ELSE c.transactionId # ""

DatabaseConnection_connect(c) == [conn |-> [c EXCEPT !.isConnected = TRUE], result |-> TRUE]

DatabaseConnection_executeQuery(c, query) ==
    IF ~c.isConnected THEN [conn |-> c, result |-> FALSE]
    ELSE [conn |-> [c EXCEPT !.queryResults =
                       IF c.databaseType = "MySQL"
                       THEN <<"Result row 1", "Result row 2", "Result row 3">>
                       ELSE <<"PG Result 1", "PG Result 2">>],
          result |-> TRUE]

DatabaseConnection_beginTransaction(c, name) ==
    IF ~c.isConnected THEN [conn |-> c, result |-> FALSE]
    ELSE [conn |-> IF c.databaseType = "MySQL"
                   THEN [c EXCEPT !.inTransaction = TRUE]
                   ELSE [c EXCEPT !.transactionId = name],
          result |-> TRUE]

\* a commit that reports success and leaves the transaction open
DatabaseConnection_commitTransaction_LeavesOpen(c) ==
    IF ~TransactionOpen(c) THEN [conn |-> c, result |-> FALSE]
    ELSE [conn |-> c, result |-> TRUE]

DatabaseConnection_commitTransaction(c) ==
    IF ~TransactionOpen(c) THEN [conn |-> c, result |-> FALSE]
    ELSE [conn |-> [c EXCEPT !.inTransaction = FALSE, !.transactionId = ""], result |-> TRUE]

DatabaseConnection_rollbackTransaction(c) ==
    IF ~TransactionOpen(c) THEN [conn |-> c, result |-> FALSE]
    ELSE [conn |-> [c EXCEPT !.inTransaction = FALSE, !.transactionId = ""], result |-> TRUE]

DatabaseConnection_disconnect(c) ==
    IF c.isConnected
    THEN [DatabaseConnection_rollbackTransaction(c).conn EXCEPT !.isConnected = FALSE]
    ELSE c

\* the calls that took effect, for the log of the template method
Logged(name, made) == IF made.result THEN <<name>> ELSE <<>>

\* DatabaseConnection::executeTransactionalQuery
DatabaseConnection_executeTransactionalQuery(c, query, name) ==
    IF ~c.isConnected THEN [conn |-> c, result |-> FALSE, log |-> <<>>]
    ELSE LET begun == DatabaseConnection_beginTransaction(c, name)
         IN  IF ~begun.result THEN [conn |-> begun.conn, result |-> FALSE, log |-> <<>>]
             ELSE LET ran == DatabaseConnection_executeQuery(begun.conn, query)
                  IN  IF ran.result
                      THEN LET committed == DatabaseConnection_commitTransaction(ran.conn)
                           IN  IF committed.result
                               THEN [conn |-> committed.conn, result |-> TRUE,
                                     log |-> <<"begin", "query", "commit">>]
                               ELSE LET undone == DatabaseConnection_rollbackTransaction(committed.conn)
                                    IN  [conn |-> undone.conn, result |-> FALSE,
                                         log |-> <<"begin", "query">> \o Logged("rollback", undone)]
                      ELSE LET undone == DatabaseConnection_rollbackTransaction(ran.conn)
                           IN  [conn |-> undone.conn, result |-> FALSE,
                                log |-> <<"begin">> \o Logged("rollback", undone)]

Called(name, arg, made) ==
    [op |-> name, arg |-> arg, wasConnected |-> connection.isConnected, result |-> made.result,
     log |-> IF name \in {"begin", "commit", "rollback"} THEN Logged(name, made) ELSE <<>>]

MakeConnection(type) ==
    /\ connection.databaseType = ""
    /\ connection' = [NoConnection EXCEPT !.databaseType = type]
    /\ dbCall' = [NoDbCall EXCEPT !.op = "constructor"]
    /\ UNCHANGED otherThanDatabase

Connect ==
    /\ connection.databaseType # ""
    /\ connection' = DatabaseConnection_connect(connection).conn
    /\ dbCall' = Called("connect", "", DatabaseConnection_connect(connection))
    /\ UNCHANGED otherThanDatabase

Disconnect ==
    /\ connection.databaseType # ""
    /\ connection' = DatabaseConnection_disconnect(connection)
    /\ dbCall' = [NoDbCall EXCEPT !.op = "disconnect", !.wasConnected = connection.isConnected]
    /\ UNCHANGED otherThanDatabase

ExecuteQuery(query) ==
    /\ connection.databaseType # ""
    /\ connection' = DatabaseConnection_executeQuery(connection, query).conn
    /\ dbCall' = Called("executeQuery", query, DatabaseConnection_executeQuery(connection, query))
    /\ UNCHANGED otherThanDatabase

BeginTransaction(name) ==
    /\ connection.databaseType # ""
    /\ connection' = DatabaseConnection_beginTransaction(connection, name).conn
    /\ dbCall' = Called("begin", name, DatabaseConnection_beginTransaction(connection, name))
    /\ UNCHANGED otherThanDatabase

CommitTransaction ==
    /\ connection.databaseType # ""
    /\ connection' = DatabaseConnection_commitTransaction(connection).conn
    /\ dbCall' = Called("commit", "", DatabaseConnection_commitTransaction(connection))
    /\ UNCHANGED otherThanDatabase

RollbackTransaction ==
    /\ connection.databaseType # ""
    /\ connection' = DatabaseConnection_rollbackTransaction(connection).conn
    /\ dbCall' = Called("rollback", "", DatabaseConnection_rollbackTransaction(connection))
    /\ UNCHANGED otherThanDatabase

ExecuteTransactionalQuery(query, name) ==
    /\ connection.databaseType # ""
    /\ LET made == DatabaseConnection_executeTransactionalQuery(connection, query, name)
       IN  /\ connection' = made.conn
           /\ dbCall' = [op |-> "executeTransactionalQuery", arg |-> query,
                         wasConnected |-> connection.isConnected,
                         result |-> made.result, log |-> made.log]
    /\ UNCHANGED otherThanDatabase

DatabaseNext ==
    \/ \E t \in DatabaseTypes : MakeConnection(t)
    \/ Connect
    \/ Disconnect
    \/ \E q \in SqlQueries : ExecuteQuery(q)
    \/ \E n \in TransactionNames : BeginTransaction(n)
    \/ CommitTransaction
    \/ RollbackTransaction
    \/ \E q \in SqlQueries, n \in TransactionNames : ExecuteTransactionalQuery(q, n)

(***************************************************************************)
(* Person: name, age and email (email is handled as name is and left       *)
(* out).  Only setAge looks at the sign of the age; the parameterized     *)
(* constructor and setDetails store what they are given.  A moved-from     *)
(* std::string is valid and unspecified: empty or unchanged here.          *)
(***************************************************************************)
MaxAge == 2

PersonIds == {"person1", "person2"}
PersonNames == {"Alice", "Bob"}
Ages == (-2)..MaxAge

NoPerson == [constructed |-> FALSE, name |-> "", age |-> 0]

PersonInit ==
    /\ persons = [p \in PersonIds |-> NoPerson]
    /\ personCall = [op |-> "none", outcome |-> "none"]

Returned(op) == [op |-> op, outcome |-> "returned"]

\* Person()
Person_default(p) ==
    /\ ~persons[p].constructed
    /\ persons' = [persons EXCEPT ![p] = [constructed |-> TRUE, name |-> "Unknown", age |-> 0]]
    /\ personCall' = Returned("Person()")
    /\ UNCHANGED otherThanPerson

\* Person(n, a, e)
Person_ctor(p, n, a) ==
    /\ ~persons[p].constructed
    /\ persons' = [persons EXCEPT ![p] = [constructed |-> TRUE, name |-> n, age |-> a]]
    /\ personCall' = Returned("Person(n, a, e)")
    /\ UNCHANGED otherThanPerson

\* Person(const Person&)
Person_copy(p, other) ==
    /\ ~persons[p].constructed
    /\ persons[other].constructed
    /\ persons' = [persons EXCEPT ![p] = persons[other]]
    /\ personCall' = Returned("Person(const Person&)")
    /\ UNCHANGED otherThanPerson

\* Person(Person&&)
Person_move(p, other) ==
    /\ ~persons[p].constructed
    /\ persons[other].constructed
    /\ \E left \in {"", persons[other].name} :
          persons' = [persons EXCEPT ![p] = persons[other],
                                     ![other] = [constructed |-> TRUE, name |-> left, age |-> 0]]
    /\ personCall' = Returned("Person(Person&&)")
    /\ UNCHANGED otherThanPerson

\* operator=(const Person&)
Person_copyAssign(p, other) ==
    /\ persons[p].constructed
    /\ persons[other].constructed
    /\ persons' = IF p # other THEN [persons EXCEPT ![p] = persons[other]] ELSE persons
    /\ personCall' = Returned("operator=(const Person&)")
    /\ UNCHANGED otherThanPerson

\* operator=(Person&&)
Person_moveAssign(p, other) ==
    /\ persons[p].constructed
    /\ persons[other].constructed
    /\ IF p # other
       THEN \E left \in {"", persons[other].name} :
               persons' = [persons EXCEPT ![p] = persons[other],
                                          ![other] = [constructed |-> TRUE, name |-> left, age |-> 0]]
       ELSE UNCHANGED persons
    /\ personCall' = Returned("operator=(Person&&)")
    /\ UNCHANGED otherThanPerson

\* ~Person()
Person_dtor(p) ==
    /\ persons[p].constructed
    /\ persons' = [persons EXCEPT ![p] = NoPerson]
    /\ personCall' = Returned("~Person()")
    /\ UNCHANGED otherThanPerson

setAge(p, a) ==
    /\ persons[p].constructed
    /\ IF a >= 0
       THEN /\ persons' = [persons EXCEPT ![p].age = a]
            /\ personCall' = Returned("setAge")
       ELSE /\ UNCHANGED persons
            /\ personCall' = [op |-> "setAge", outcome |-> "std::invalid_argument"]
    /\ UNCHANGED otherThanPerson

setDetails(p, n, a) ==
    /\ persons[p].constructed
    /\ persons' = [persons EXCEPT ![p].name = n, ![p].age = a]
    /\ personCall' = Returned("setDetails")
    /\ UNCHANGED otherThanPerson

getAge(p) == persons[p].age

PersonNext ==
    \/ \E p \in PersonIds : Person_default(p)
    \/ \E p \in PersonIds, n \in PersonNames, a \in Ages : Person_ctor(p, n, a)
    \/ \E p, other \in PersonIds : Person_copy(p, other)
    \/ \E p, other \in PersonIds : Person_move(p, other)
    \/ \E p, other \in PersonIds : Person_copyAssign(p, other)
    \/ \E p, other \in PersonIds : Person_moveAssign(p, other)
    \/ \E p \in PersonIds : Person_dtor(p)
    \/ \E p \in PersonIds, a \in Ages : setAge(p, a)
    \/ \E p \in PersonIds, n \in PersonNames, a \in Ages : setDetails(p, n, a)

(***************************************************************************)
(* Document::serialize joins title, content, author and                    *)
(* std::to_string(pageCount) with '|'; deserialize cuts the string at the  *)
(* first three '|' and reads the rest with std::stoi.  Strings are         *)
(* sequences of characters.                                                *)
(***************************************************************************)
MaxFieldLen == 1

TextCharacters == {"a", "|", "7"}
TextFields == UNION {[1..n -> TextCharacters] : n \in 0..MaxFieldLen}
PageCounts == {-1, 0, 12}

Digits == <<"0", "1", "2", "3", "4", "5", "6", "7", "8", "9">>

\* std::to_string(int) as characters
RECURSIVE NatToChars(_)
NatToChars(n) == IF n < 10 THEN <<Digits[n + 1]>> ELSE NatToChars(n \div 10) \o <<Digits[(n % 10) + 1]>>

to_chars(n) == IF n < 0 THEN <<"-">> \o NatToChars(-n) ELSE NatToChars(n)

IsDigit(c) == \E d \in 1..10 : Digits[d] = c

DigitValue(c) == (CHOOSE d \in 1..10 : Digits[d] = c) - 1

\* the value of the digits s starts with, continuing from acc
RECURSIVE LeadingDigits(_, _)
LeadingDigits(s, acc) ==
    IF s = <<>> \/ ~IsDigit(Head(s)) THEN acc
    ELSE LeadingDigits(Tail(s), 10 * acc + DigitValue(Head(s)))

\* std::stoi: an optional sign, then digits up to the first other character;
\* std::invalid_argument when there is no digit
stoi(s) ==
    LET signed == s # <<>> /\ Head(s) \in {"-", "+"}
        body == IF signed THEN Tail(s) ELSE s
    IN  IF body = <<>> \/ ~IsDigit(Head(body))
        THEN [outcome |-> "std::invalid_argument", value |-> 0]
        ELSE [outcome |-> "returned",
              value |-> IF signed /\ Head(s) = "-" THEN -LeadingDigits(body, 0)
                        ELSE LeadingDigits(body, 0)]

\* data.find('|', pos): the first index from pos on that holds '|', or npos
find(s, pos) ==
    IF \E k \in pos..(Len(s) - 1) : s[k + 1] = "|"
    THEN CHOOSE k \in pos..(Len(s) - 1) : s[k + 1] = "|" /\ \A j \in pos..(k - 1) : s[j + 1] # "|"
    ELSE npos

\* pos + 1 in size_t: npos + 1 is 0
Next1(pos) == IF pos = npos THEN 0 ELSE pos + 1

NewDocument(t, c, a, pages) == [title |-> t, content |-> c, author |-> a, pageCount |-> pages]

Document_serialize(d) ==
    d.title \o <<"|">> \o d.content \o <<"|">> \o d.author \o <<"|">> \o to_chars(d.pageCount)

\* Document::deserialize on object d: the object after the call and how the
\* call ended; the text fields are assigned before std::stoi can throw
Document_deserialize(d, s) ==
    LET pos1 == find(s, 0)
        pos2 == find(s, Next1(pos1))
        pos3 == find(s, Next1(pos2))
    IN  IF pos1 # npos /\ pos2 # npos /\ pos3 # npos
        THEN LET pages == stoi(substr(s, pos3 + 1, npos - Len(s)))
                 texts == [d EXCEPT !.title = substr(s, 0, pos1),
                                    !.content = substr(s, pos1 + 1, pos2 - pos1 - 1),
                                    !.author = substr(s, pos2 + 1, pos3 - pos2 - 1)]
             IN  IF pages.outcome = "returned"
                 THEN [doc |-> [texts EXCEPT !.pageCount = pages.value], outcome |-> "true"]
                 ELSE [doc |-> texts, outcome |-> pages.outcome]
        ELSE [doc |-> d, outcome |-> "false"]

EmptyDocument == NewDocument(<<>>, <<>>, <<>>, 0)

DocumentInit ==
    /\ document = EmptyDocument
    /\ serialized = <<>>
    /\ restored = EmptyDocument
    /\ docCall = [op |-> "none", outcome |-> "none"]

\* Document d(t, c, a, pages), and a second Document to restore into
Document_ctor(t, c, a, pages) ==
    /\ document' = NewDocument(t, c, a, pages)
    /\ serialized' = <<>>
    /\ restored' = EmptyDocument
    /\ docCall' = [op |-> "Document", outcome |-> "returned"]
    /\ UNCHANGED otherThanDocument

\* data = d.serialize()
Serialize ==
    /\ docCall.op = "Document"
    /\ serialized' = Document_serialize(document)
    /\ docCall' = [op |-> "serialize", outcome |-> "returned"]
    /\ UNCHANGED <<document, restored>>
    /\ UNCHANGED otherThanDocument

\* restored.deserialize(data)
Deserialize ==
    /\ docCall.op = "serialize"
    /\ restored' = Document_deserialize(restored, serialized).doc
    /\ docCall' = [op |-> "deserialize", outcome |-> Document_deserialize(restored, serialized).outcome]
    /\ UNCHANGED <<document, serialized>>
    /\ UNCHANGED otherThanDocument

DocumentNext ==
    \/ \E t, c, a \in TextFields, pages \in PageCounts : Document_ctor(t, c, a, pages)
    \/ Serialize
    \/ Deserialize

(***************************************************************************)
(* MyString owns a char buffer made with new[].  Buffers are numbered;     *)
(* new[] hands out one that was never used, so a second delete[] of the    *)
(* same buffer shows in its count.  new[] is taken to succeed.             *)
(***************************************************************************)
MaxBuffers == 3

StringIds == {"str1", "str2", "str3"}
CStrings == {"Hi", "World"}
BufferIds == 1..MaxBuffers

nullptr == 0

strlen(text) == Len(text)

NoString == [alive |-> FALSE, data |-> nullptr, size |-> 0]

MyStringInit ==
    /\ strings = [s \in StringIds |-> NoString]
    /\ buffers = [b \in BufferIds |-> [state |-> "unused", text |-> "", releases |-> 0]]
    /\ strCall = [op |-> "none", target |-> "", source |-> ""]

CanAllocate == \E b \in BufferIds : buffers[b].state = "unused"

\* the buffer new char[size + 1] returns
NewBuffer == CHOOSE b \in BufferIds : buffers[b].state = "unused" /\ \A c \in 1..(b - 1) : buffers[c].state # "unused"

\* new char[size + 1] followed by strcpy(data, text)
NewArray(bufs, b, text) == [bufs EXCEPT ![b] = [state |-> "allocated", text |-> text, releases |-> 0]]

\* delete[] data
Deleted(bufs, b) ==
    IF b = nullptr THEN bufs
    ELSE [bufs EXCEPT ![b].state = "released", ![b].releases = @ + 1]

c_str(s) == IF strings[s].data # nullptr THEN buffers[strings[s].data].text ELSE ""

empty(s) == strings[s].size = 0 \/ strings[s].data = nullptr

\* MyString()
MyString_default(s) ==
    /\ ~strings[s].alive
    /\ strings' = [strings EXCEPT ![s] = [alive |-> TRUE, data |-> nullptr, size |-> 0]]
    /\ strCall' = [op |-> "MyString()", target |-> s, source |-> ""]
    /\ UNCHANGED buffers
    /\ UNCHANGED otherThanMyString

\* MyString(const char* str) for a string
MyString_cstr(s, str) ==
    /\ ~strings[s].alive
    /\ CanAllocate
    /\ strings' = [strings EXCEPT ![s] = [alive |-> TRUE, data |-> NewBuffer, size |-> strlen(str)]]
    /\ buffers' = NewArray(buffers, NewBuffer, str)
    /\ strCall' = [op |-> "MyString(const char*)", target |-> s, source |-> ""]
    /\ UNCHANGED otherThanMyString

\* MyString(const MyString& other)
MyString_copy(s, other) ==
    /\ ~strings[s].alive
    /\ strings[other].alive
    /\ IF strings[other].data # nullptr
       THEN /\ CanAllocate
            /\ strings' = [strings EXCEPT ![s] = [alive |-> TRUE, data |-> NewBuffer,
                                                   size |-> strings[other].size]]
            /\ buffers' = NewArray(buffers, NewBuffer, buffers[strings[other].data].text)
       ELSE /\ strings' = [strings EXCEPT ![s] = [alive |-> TRUE, data |-> nullptr,
                                                   size |-> strings[other].size]]
            /\ UNCHANGED buffers
    /\ strCall' = [op |-> "MyString(const MyString&)", target |-> s, source |-> other]
    /\ UNCHANGED otherThanMyString

\* a move constructor that leaves other.data as it was
MyString_move_SourceKept(s, other) ==
    /\ ~strings[s].alive
    /\ strings[other].alive
    /\ strings' = [strings EXCEPT ![s] = [alive |-> TRUE, data |-> strings[other].data,
                                           size |-> strings[other].size],
                                   ![other].size = 0]
    /\ strCall' = [op |-> "MyString(MyString&&)", target |-> s, source |-> other]
    /\ UNCHANGED buffers
    /\ UNCHANGED otherThanMyString

\* MyString(MyString&& other)
MyString_move(s, other) ==
    /\ ~strings[s].alive
    /\ strings[other].alive
    /\ strings' = [strings EXCEPT ![s] = [alive |-> TRUE, data |-> strings[other].data,
                                           size |-> strings[other].size],
                                   ![other].data = nullptr,
                                   ![other].size = 0]
    /\ strCall' = [op |-> "MyString(MyString&&)", target |-> s, source |-> other]
    /\ UNCHANGED buffers
    /\ UNCHANGED otherThanMyString

\* operator=(const MyString& other)
MyString_copyAssign(s, other) ==
    /\ strings[s].alive
    /\ strings[other].alive
    /\ IF s # other
       THEN IF strings[other].data # nullptr
            THEN /\ CanAllocate
                 /\ strings' = [strings EXCEPT ![s].data = NewBuffer, ![s].size = strings[other].size]
                 /\ buffers' = NewArray(Deleted(buffers, strings[s].data), NewBuffer,
                                         Deleted(buffers, strings[s].data)[strings[other].data].text)
            ELSE /\ strings' = [strings EXCEPT ![s].data = nullptr, ![s].size = strings[other].size]
                 /\ buffers' = Deleted(buffers, strings[s].data)
       ELSE UNCHANGED <<strings, buffers>>
    /\ strCall' = [op |-> "operator=(const MyString&)", target |-> s, source |-> other]
    /\ UNCHANGED otherThanMyString

\* operator=(MyString&& other)
MyString_moveAssign(s, other) ==
    /\ strings[s].alive
    /\ strings[other].alive
    /\ IF s # other
       THEN /\ strings' = [strings EXCEPT ![s].data = strings[other].data,
                                          ![s].size = strings[other].size,
                                          ![other].data = nullptr,
                                          ![other].size = 0]
            /\ buffers' = Deleted(buffers, strings[s].data)
       ELSE UNCHANGED <<strings, buffers>>
    /\ strCall' = [op |-> "operator=(MyString&&)", target |-> s, source |-> other]
    /\ UNCHANGED otherThanMyString

\* ~MyString()
MyString_dtor(s) ==
    /\ strings[s].alive
    /\ strings' = [strings EXCEPT ![s] = NoString]
    /\ buffers' = Deleted(buffers, strings[s].data)
    /\ strCall' = [op |-> "~MyString()", target |-> s, source |-> ""]
    /\ UNCHANGED otherThanMyString

MyStringNext ==
    \/ \E s \in StringIds : MyString_default(s)
    \/ \E s \in StringIds, str \in CStrings : MyString_cstr(s, str)
    \/ \E s, other \in StringIds : MyString_copy(s, other)
    \/ \E s, other \in StringIds : MyString_move(s, other)
    \/ \E s, other \in StringIds : MyString_copyAssign(s, other)
    \/ \E s, other \in StringIds : MyString_moveAssign(s, other)
    \/ \E s \in StringIds : MyString_dtor(s)

(***************************************************************************)
(* The specifications: one per example, the other examples idle.           *)
(***************************************************************************)
DecoIdle == coffee = <<>> /\ processor = <<>> /\ call = NoCall

\* the examples added to the three above, before their first operation
RestIdle == SafeIdle /\ OwnInit /\ CalcInit /\ AdapterInit /\ MainInit
    /\ ObserverInit /\ SortInit /\ CompressionInit /\ VehicleInit
    /\ DatabaseInit /\ PersonInit /\ DocumentInit /\ MyStringInit

InitDecorator == DecoInit /\ SingletonInit /\ BankInit /\ RestIdle

\* no decorator chain in use: the singletons and the account at their start
InitIdle == DecoIdle /\ SingletonInit /\ BankInit /\ RestIdle

\* the two accounts constructed, nothing else in use
InitSafeBank ==
    DecoIdle /\ SingletonInit /\ BankInit /\ SafeBankInit /\ OwnInit /\ CalcInit
    /\ AdapterInit /\ MainInit /\ ObserverInit /\ SortInit /\ CompressionInit
    /\ VehicleInit /\ DatabaseInit /\ PersonInit /\ DocumentInit /\ MyStringInit

SpecDecorator == InitDecorator /\ [][DecoNext]_vars

SpecSingleton == InitIdle /\ [][SingletonNext]_vars

SpecBank == InitIdle /\ [][BankNext]_vars

SpecSafeBank == InitSafeBank /\ [][SafeNext]_vars

SpecOwnership == InitIdle /\ [][OwnNext]_vars

SpecCalculator == InitIdle /\ [][CalcNext]_vars

SpecAdapter == InitIdle /\ [][AdapterNext]_vars

SpecMain == InitIdle /\ [][MainNext]_vars

SpecObserver == InitIdle /\ [][ObserverNext]_vars

SpecSort == InitIdle /\ [][SortNext]_vars

SpecCompression == InitIdle /\ [][CompressionNext]_vars

SpecVehicle == InitIdle /\ [][VehicleNext]_vars

SpecDatabase == InitIdle /\ [][DatabaseNext]_vars

SpecPerson == InitIdle /\ [][PersonNext]_vars

SpecDocument == InitIdle /\ [][DocumentNext]_vars

SpecMyString == InitIdle /\ [][MyStringNext]_vars

(***************************************************************************)
(* Properties of the decorator chains, checked under SpecDecorator.        *)
(***************************************************************************)
\* what each coffee decorator contributes on its own
CoffeeSuffix(d) ==
    CASE d = "CoffeeDecorator" -> ""
      [] d = "MilkDecorator" -> " + Milk"
      [] d = "SugarDecorator" -> " + Sugar"
      [] d = "VanillaDecorator" -> " + Vanilla"
      [] d = "WhippedCreamDecorator" -> " + Whipped Cream"

CoffeeDelta(d) ==
    CASE d = "CoffeeDecorator" -> 0
      [] d = "MilkDecorator" -> 5
      [] d = "SugarDecorator" -> 2
      [] d = "VanillaDecorator" -> 7
      [] d = "WhippedCreamDecorator" -> 10

CoffeeOwnStep(d) ==
    CASE d = "CoffeeDecorator" -> <<>>
      [] d = "MilkDecorator" -> <<"Adding creamy steamed milk...">>
      [] d = "SugarDecorator" -> <<"Adding sweet sugar...">>
      [] d = "VanillaDecorator" -> <<"Adding aromatic vanilla flavor...">>
      [] d = "WhippedCreamDecorator" -> <<"Topping with fluffy whipped cream...">>

\* acc followed by the suffixes of chain[i], chain[i + 1], ... in wrapping order
RECURSIVE SuffixesFrom(_, _, _)
SuffixesFrom(acc, chain, i) ==
    IF i > Len(chain) THEN acc
    ELSE SuffixesFrom(acc \o CoffeeSuffix(chain[i]), chain, i + 1)

RECURSIVE DeltasFrom(_, _, _)
DeltasFrom(acc, chain, i) ==
    IF i > Len(chain) THEN acc
    ELSE DeltasFrom(acc + CoffeeDelta(chain[i]), chain, i + 1)

RECURSIVE StepsFrom(_, _, _)
StepsFrom(acc, chain, i) ==
    IF i > Len(chain) THEN acc
    ELSE StepsFrom(acc \o CoffeeOwnStep(chain[i]), chain, i + 1)

\* the effect of text decorator d alone: what it makes of a text a plain processor hands it
OwnEffect(d, text) == TextProcessor_process(<<PlainText, d>>, text)

\* text after the effects of chain[i], chain[i + 1], ... applied in wrapping order
RECURSIVE EffectsFrom(_, _, _)
EffectsFrom(text, chain, i) ==
    IF i > Len(chain) THEN text
    ELSE EffectsFrom(OwnEffect(chain[i], text), chain, i + 1)

\* C1: the description the outermost wrapper of a chain returns is the
\* description of the base object followed by the suffixes of the decorators
\* in the order in which they were wrapped around it.
DescriptionIsBaseThenSuffixes ==
    call.op = "getDescription" =>
        call.result =
            SuffixesFrom(Coffee_getDescription(<<call.self[1]>>), call.self, 2)

\* getDescription was called on a base wrapped in milk, then in sugar
DescribedMilkThenSugar ==
    /\ call.op = "getDescription"
    /\ Len(call.self) = 3
    /\ call.self[2] = "MilkDecorator"
    /\ call.self[3] = "SugarDecorator"

\* C2: the cost the outermost wrapper of a chain returns is the cost of the
\* base object plus the own delta of every decorator of the chain.
CostIsBasePlusDeltas ==
    call.op = "getCost" =>
        call.result = DeltasFrom(Coffee_getCost(<<call.self[1]>>), call.self, 2)

\* getCost was called on an espresso wrapped in sugar, then in vanilla
CostOfSugarThenVanilla ==
    /\ call.op = "getCost"
    /\ call.self = <<"Espresso", "SugarDecorator", "VanillaDecorator">>
    /\ call.result = 39

\* C3: perform on the outermost wrapper acts strictly inner to outer: prepare
\* writes the step of the base object first and then the step of each
\* decorator in wrapping order, and process returns the text the base object
\* returns with the effect of each decorator applied in wrapping order.
EffectsInnerToOuter ==
    /\ call.op = "prepare" =>
           call.result = StepsFrom(Coffee_prepare(<<call.self[1]>>), call.self, 2)
    /\ call.op = "process" =>
           call.result =
               EffectsFrom(TextProcessor_process(<<call.self[1]>>, call.arg),
                           call.self, 2)

\* prepare was called on a chain of two different decorators with own steps
PreparedTwoDecorators ==
    /\ call.op = "prepare"
    /\ Len(call.self) = 3
    /\ call.self[2] = "MilkDecorator"
    /\ call.self[3] = "WhippedCreamDecorator"
    /\ Len(call.result) = 3

\* the decorators that add something of their own (the two base decorator
\* classes only forward)
ConcreteCoffeeDecorators == CoffeeDecorators \ {"CoffeeDecorator"}
ConcreteTextDecorators == TextDecorators \ {[kind |-> "TextProcessorDecorator"]}

\* chain with its two outermost decorators exchanged
SwapOuter(chain) ==
    LET n == Len(chain)
    IN  [i \in 1..n |-> IF i = n THEN chain[n - 1]
                        ELSE IF i = n - 1 THEN chain[n]
                        ELSE chain[i]]

\* C4: for two different decorators A and B wrapped around an object, the
\* description of the chain object -> A -> B differs from the description of
\* the chain object -> B -> A (getDescription and getProcessingInfo).
ReorderingChangesDescription ==
    /\ (/\ call.op = "getDescription"
        /\ Len(call.self) >= 3
        /\ Last(call.self) \in ConcreteCoffeeDecorators
        /\ Last(Front(call.self)) \in ConcreteCoffeeDecorators
        /\ Last(call.self) # Last(Front(call.self)))
           => call.result # Coffee_getDescription(SwapOuter(call.self))
    /\ (/\ call.op = "getProcessingInfo"
        /\ Len(call.self) >= 3
        /\ Last(call.self) \in ConcreteTextDecorators
        /\ Last(Front(call.self)) \in ConcreteTextDecorators
        /\ Last(call.self) # Last(Front(call.self)))
           => call.result # TextProcessor_getProcessingInfo(SwapOuter(call.self))

\* getProcessingInfo was called on a chain whose two outermost decorators
\* are encryptions with different shifts
DescribedTwoEncryptions ==
    /\ call.op = "getProcessingInfo"
    /\ Len(call.self) = 3
    /\ call.self[2] = [kind |-> "EncryptionDecorator", shift |-> 5]
    /\ call.self[3] = [kind |-> "EncryptionDecorator", shift |-> DefaultShift]

UpperCase == [kind |-> "UpperCaseDecorator"]
Encryption(s) == [kind |-> "EncryptionDecorator", shift |-> s]

HasLetter(text) == \E i \in 1..Len(text) : isalpha(text[i])

\* the shift takes some letter of the text below the first letter of its case
ShiftsBelowBase(text, s) ==
    \E i \in 1..Len(text) :
        /\ isalpha(text[i])
        /\ LET index == text[i] - (IF isupper(text[i]) THEN 65 ELSE 97)
           IN  index + s < 0 /\ (index + s) % 26 # 0

OneDatabaseConnection ==
    /\ Len(heap) <= 1
    /\ \A t \in Threads :
           ret[t].db # NullPtr =>
               /\ Len(heap) = 1
               /\ ret[t].db = 1
               /\ ret[t].db = instance

\* every thread has received an instance while another thread is inside getInstance
AllCallersReceived ==
    /\ \A t \in Threads : ret[t].db # NullPtr
    /\ \E t \in Threads : pc[t] = "lock"
    /\ \E t \in Threads : pc[t] = "return"

\* C7: every call of a singleton accessor returns the instance that the
\* first call of the process returned, whatever connection string it passes.
AccessorsReturnFirstInstance ==
    \A t \in Threads :
        /\ ret[t].db # NullPtr => ret[t].db = first.db
        /\ ret[t].logger # NullPtr => ret[t].logger = first.logger
        /\ ret[t].config # NullPtr => ret[t].config = first.config

\* a call with another connection string than the one the instance was
\* made with has returned, and so have calls of the other two accessors
ReturnedForOtherConnString ==
    \E t \in Threads :
        /\ pc[t] = "idle"
        /\ ret[t].db # NullPtr
        /\ Len(heap) >= 1
        /\ conn_str[t] # heap[1]
        /\ ret[t].logger # NullPtr
        /\ ret[t].config # NullPtr

(***************************************************************************)
(* Properties of BankAccount, checked under SpecBank.                      *)
(***************************************************************************)
GuardedOps == {"deposit", "withdraw", "changePin", "deactivateAccount",
               "activateAccount"}

CallFailed(c) == c.threw # "" \/ c.returned = "false"

\* C8: deposit, withdraw, changePin, deactivateAccount and activateAccount
\* called with an incorrect PIN fail and leave the balance, the stored PIN
\* and the active flag as they were before the call.
WrongPinLeavesAccount ==
    [][(bankCall'.op \in GuardedOps /\ bankCall'.inputPin # pin)
          => /\ CallFailed(bankCall')
             /\ balance' = balance
             /\ pin' = pin
             /\ isActive' = isActive]_bankVars

\* a deposit with an incorrect PIN was rejected on an active account with money
WrongPinDepositRejected ==
    /\ bankCall.op = "deposit"
    /\ bankCall.amount > 0
    /\ bankCall.inputPin # pin
    /\ bankCall.threw = "Invalid PIN"
    /\ isActive
    /\ balance > 0

\* C9: getBalance with an incorrect PIN on an active account throws
\* "Invalid PIN" and returns no balance, every time it is called, and leaves
\* the account as it was.
WrongPinLookupThrows ==
    [][(bankCall'.op = "getBalance" /\ isActive /\ bankCall'.inputPin # pin)
          => /\ bankCall'.threw = "Invalid PIN"
             /\ bankCall'.returned = "none"
             /\ UNCHANGED <<constructed, balance, pin, isActive>>]_bankVars

\* getBalance failed twice in a row with the same incorrect PIN
RepeatedWrongPinLookup ==
    /\ bankCall.op = "getBalance"
    /\ bankCall.threw = "Invalid PIN"
    /\ bankPrev = bankCall
    /\ isActive
    /\ balance > 0

\* C10: the balance is not negative after construction and stays so after
\* every deposit and withdrawal, successful or not.
BalanceNeverNegative == constructed => balance >= 0

\* a withdrawal of more than the balance was refused, then the whole balance withdrawn
WithdrewWholeBalance ==
    /\ bankPrev.op = "withdraw"
    /\ bankPrev.returned = "false"
    /\ bankCall.op = "withdraw"
    /\ bankCall.returned = "true"
    /\ balance = 0

\* C11: a withdrawal of more than the available balance is reported by
\* throwing an exception: BankAccount::withdraw called on an active account
\* with the correct PIN and an amount above the balance ends by throwing.
OverdraftThrows ==
    [][(/\ bankCall'.op = "withdraw"
        /\ isActive
        /\ bankCall'.inputPin = pin
        /\ bankCall'.amount > balance)
          => bankCall'.threw # ""]_bankVars

\* C20: after deactivateAccount has succeeded, getBalance, deposit and
\* withdraw throw even with the correct PIN and leave the balance as it
\* was; only activateAccount with the correct PIN makes the account active
\* again, with the same balance, and after it the three operations called
\* with the correct PIN succeed again.
DeactivatedUntilReactivated ==
    [][/\ (bankCall'.op = "deactivateAccount" /\ bankCall'.threw = "")
             => (~isActive' /\ balance' = balance)
       /\ (constructed /\ ~isActive
             /\ bankCall'.op \in {"getBalance", "deposit", "withdraw"})
             => /\ bankCall'.threw = "Account is not active"
                /\ balance' = balance
                /\ ~isActive'
       /\ (constructed /\ ~isActive /\ isActive')
             => (bankCall'.op = "activateAccount" /\ bankCall'.inputPin = pin)
       /\ (constructed /\ ~isActive /\ bankCall'.op = "activateAccount"
             /\ bankCall'.inputPin = pin)
             => (isActive' /\ balance' = balance)
       /\ (bankCall.op = "activateAccount" /\ bankCall.threw = ""
             /\ bankCall'.inputPin = pin)
             => /\ bankCall'.op = "getBalance"
                   => (bankCall'.returned = "value" /\ bankCall'.value = balance)
                /\ (bankCall'.op = "deposit" /\ bankCall'.amount > 0)
                   => (bankCall'.returned = "void"
                       /\ balance' = balance + bankCall'.amount)
                /\ (bankCall'.op = "withdraw" /\ bankCall'.amount > 0
                      /\ bankCall'.amount <= balance)
                   => (bankCall'.returned = "true"
                       /\ balance' = balance - bankCall'.amount)]_bankVars

\* a deposit with the correct PIN was rejected right after the deactivation
\* of an account with money
DeactivatedDepositRejected ==
    /\ bankPrev.op = "deactivateAccount"
    /\ bankPrev.threw = ""
    /\ bankCall.op = "deposit"
    /\ bankCall.amount > 0
    /\ bankCall.inputPin = pin
    /\ bankCall.threw = "Account is not active"
    /\ balance > 0

(***************************************************************************)
(* Properties of SafeBankAccount, checked under SpecSafeBank.              *)
(***************************************************************************)
\* C12: transfer between two accounts applies both the withdrawal and the
\* deposit or neither: when it returns, the balance of the source is down
\* by the amount and that of the target up by the amount; when it throws,
\* both balances are what they were before the call.
TransferAllOrNothing ==
    [][(safeCall'.op = "transfer" /\ safeCall'.self # safeCall'.to)
          => LET self == safeCall'.self
                 toAccount == safeCall'.to
             IN IF safeCall'.threw = ""
                  THEN /\ accounts'[self].balance
                              = accounts[self].balance - safeCall'.amount
                       /\ accounts'[toAccount].balance
                              = accounts[toAccount].balance + safeCall'.amount
                ELSE /\ accounts'[self].balance = accounts[self].balance
                     /\ accounts'[toAccount].balance
                            = accounts[toAccount].balance]_safeVars

\* C13: a deposit or withdrawal that throws, for a non-positive amount, for
\* insufficient funds or because logging the transaction failed, leaves the
\* balance and the transaction history of the account as they were.
FailedCallLeavesAccount ==
    [][(safeCall'.op \in {"deposit", "withdraw"} /\ safeCall'.threw # "")
          => accounts' = accounts]_safeVars

\* a deposit into an account with a history failed while it logged
DepositFailedWhileLogging ==
    /\ safeCall.op = "deposit"
    /\ safeCall.amount > 0
    /\ safeCall.threw = "std::bad_alloc"
    /\ accounts[safeCall.self].transactionHistory # <<>>
    /\ accounts[safeCall.self].balance > 0

(***************************************************************************)
(* Properties of the ownership of decorated objects, checked under         *)
(* SpecOwnership.                                                          *)
(***************************************************************************)
IsDecorator(class) == class \in OwnedCoffeeDecorators \cup OwnedTextDecorators

\* the handles of the caller and the members of decorators that point to a
HandlesTo(a) == {h \in Handles : handles[h] = a}
WrappersOf(a) == {d \in Allocated(objects) : objects[d].member = a}

\* C14: every decorator holds exactly one wrapped object, and every object
\* has exactly one owner, a handle of the caller or one decorator, never
\* two decorators and never a decorator and the caller; constructing a
\* decorator takes the wrapped object out of the caller's handle.
SoleOwnership ==
    /\ \A a \in Allocated(objects) :
           /\ Cardinality(HandlesTo(a)) + Cardinality(WrappersOf(a)) = 1
           /\ IsDecorator(objects[a].class)
                 => objects[a].member \in Allocated(objects) \ {a}
    /\ \A h \in Handles : handles[h] # NullPtr => handles[h] \in Allocated(objects)
    /\ ownCall.op = "wrap"
          => /\ objects[handles[ownCall.dst]].member = ownCall.moved
             /\ HandlesTo(ownCall.moved) = {}
             /\ ownCall.src # ownCall.dst => handles[ownCall.src] = NullPtr

\* a decorated object was wrapped from one handle into another
WrappedIntoOtherHandle ==
    /\ ownCall.op = "wrap"
    /\ ownCall.src # ownCall.dst
    /\ handles[ownCall.src] = NullPtr
    /\ ownCall.moved \in Allocated(objects)
    /\ IsDecorator(objects[ownCall.moved].class)

(***************************************************************************)
(* The decorator chains again, under SpecDecorator.                        *)
(***************************************************************************)
ChainCalls == {"getDescription", "getCost", "prepare", "process", "getProcessingInfo"}

RECURSIVE ExactFactorial(_)
ExactFactorial(n) == IF n = 0 THEN Numeral(1) ELSE Times(ExactFactorial(n - 1), n, 0)

FactorialOfNegativeThrows ==
    (calcCall.op = "factorial" /\ calcCall.args[1] < 0)
        => /\ calcCall.ended = "threw"
           /\ calcCall.what = "Factorial of negative number is undefined!"
           /\ calcCall.value = <<>>

\* factorial(-1) threw
FactorialOfMinusOneThrew ==
    /\ calcCall.op = "factorial"
    /\ calcCall.args = <<-1>>
    /\ calcCall.ended = "threw"

\* n is a prime number: above 1 and with no divisor d, 1 < d, d * d <= n
IsPrimeNumber(n) ==
    /\ n > 1
    /\ \A d \in 2..(IF n < 2^16 THEN n - 1 ELSE 2^16) :
           (d <= n \div d) => n % d # 0

\* C18: isPrime(n) returns true exactly when n is a prime number, for every
\* int n.
IsPrimeDecidesPrimality ==
    calcCall.op = "isPrime"
        => /\ calcCall.ended = "returned"
           /\ calcCall.value = IsPrimeNumber(calcCall.args[1])

\* C19: divide(a, b) throws whenever b is zero, whatever a is, and returns
\* no result.
DivideByZeroThrows ==
    (calcCall.op = "divide" /\ IsZero(calcCall.args[2]))
        => /\ calcCall.ended = "threw"
           /\ calcCall.what = "Division by zero!"

\* a division of a number other than zero by -0.0 threw
DividedByNegativeZero ==
    /\ calcCall.op = "divide"
    /\ calcCall.args[1].mag > 0
    /\ calcCall.args[2] = [sign |-> -1, mag |-> 0]
    /\ calcCall.ended = "threw"

(***************************************************************************)
(* Properties of PaymentAdapter, checked under SpecAdapter.                *)
(***************************************************************************)
\* C21: processPayment(amount, method) makes exactly one makePayment call
\* on the legacy gateway, with the same amount and the currency the
\* adapter was constructed with, and returns true.
OneLegacyPaymentPerCall ==
    [][payCall'.op = "processPayment"
          => /\ payments' = Append(payments, [amount |-> payCall'.amount,
                                              currency |-> currency])
             /\ payCall'.result = "true"
             /\ currency' = currency]_adapterVars

\* a second payment went through an adapter made for EUR
PaidTwiceInEuro ==
    /\ payCall.op = "processPayment"
    /\ currency = "EUR"
    /\ Len(payments) = 2
    /\ payments[2] = [amount |-> payCall.amount, currency |-> "EUR"]
    /\ payCall.amount > 0

(***************************************************************************)
(* Properties of the demo mains, checked under SpecMain.                   *)
(***************************************************************************)
\* C22: a demo main returns 0 when its body completed without an exception
\* reaching the catch of main, and 1 when an exception was caught there.
ExitCodeTellsCaught ==
    /\ mainPc = "returned"
          => /\ thrown = "" => (exitCode = 0 /\ section = Sections(program) + 1)
             /\ thrown # "" => (exitCode = 1 /\ IsStdException(thrown))
    /\ mainPc # "returned" => exitCode = -1

\* main returned 1 for an exception thrown after a try block inside the
\* body had caught another
ReturnedOneAfterLocalCatch ==
    /\ mainPc = "returned"
    /\ exitCode = 1
    /\ localCatches = 1
    /\ section > 2
    /\ thrown = "std::bad_alloc"

(***************************************************************************)
(* Properties of the Subject, checked under SpecObserver.                  *)
(***************************************************************************)
\* C23: after any attach and detach calls, setState(s) delivers s exactly
\* once to each observer attached and not detached since, in the order of
\* attaching, and nothing to a detached observer.
SetStateReachesAttachedOnce ==
    subjectCall.op = "setState"
        => updates = [i \in 1..Len(attachedNow) |->
                        [observer |-> attachedNow[i], message |-> subjectCall.arg]]

(***************************************************************************)
(* Properties of the sort strategies, checked under SpecSort.              *)
(***************************************************************************)
Ascending(vec) == \A k \in 1..(Len(vec) - 1) : vec[k] <= vec[k + 1]

Occurrences(vec, x) == Cardinality({k \in 1..Len(vec) : vec[k] = x})

SameElements(a, b) == Len(a) = Len(b) /\ \A x \in 0..(MaxElement + 1) : Occurrences(a, x) = Occurrences(b, x)

\* C24: for every input vector, the empty one and a one-element one included,
\* each sort strategy returns and leaves the vector ascending with exactly
\* the elements it had before the call.
EverySortSorts ==
    (sortCall.op = "performSort" /\ sortStrategy # "")
        => /\ sortCall.outcome = "returned"
           /\ Ascending(data)
           /\ SameElements(data, sortCall.input)

(***************************************************************************)
(* Properties of the compression strategies, checked under                 *)
(* SpecCompression.                                                        *)
(***************************************************************************)
StartsWith(s, marker) == Len(s) >= Len(marker) /\ SubSeq(s, 1, Len(marker)) = marker

EndsWith(s, marker) ==
    Len(s) >= Len(marker) /\ SubSeq(s, Len(s) - Len(marker) + 1, Len(s)) = marker

Wrapped(type, s) == StartsWith(s, StartMarker(type)) /\ EndsWith(s, EndMarker(type))

\* C25: for ZipCompression and RARCompression, decompress(s) returns s
\* unchanged for every s that is not wrapped in both the start and the end
\* marker of the strategy, strings shorter than the markers and the empty
\* string included.
UnwrappedComesBackUnchanged ==
    (/\ compressionCall.op = "decompressFile"
     /\ compressionStrategy # ""
     /\ ~Wrapped(compressionStrategy, compressionCall.input))
        => /\ compressionCall.outcome = "returned"
           /\ compressionCall.result = compressionCall.input

(***************************************************************************)
(* Properties of the Vehicle counter, checked under SpecVehicle.           *)
(***************************************************************************)
\* C26: getTotalVehicles() equals the number of Vehicle objects alive, after
\* any constructions, copies and destructions.
TotalCountsAliveVehicles ==
    getTotalVehicles = Cardinality({k \in 1..Len(vehicles) : vehicles[k].alive})

(***************************************************************************)
(* Properties of the database connections, checked under SpecDatabase.     *)
(***************************************************************************)
\* C27: when executeTransactionalQuery returns on a connected MySQL or
\* PostgreSQL connection no transaction is left open: it began one
\* transaction and committed it if the query succeeded, rolled it back
\* otherwise; on a connection that is not connected it returns false and
\* begins no transaction.
TransactionalQueryClosesItsTransaction ==
    dbCall.op = "executeTransactionalQuery"
        => IF dbCall.wasConnected
           THEN /\ ~TransactionOpen(connection)
                /\ \/ dbCall.result /\ dbCall.log = <<"begin", "query", "commit">>
                   \/ ~dbCall.result /\ dbCall.log = <<"begin", "rollback">>
           ELSE /\ ~dbCall.result
                /\ dbCall.log = <<>>
                /\ ~TransactionOpen(connection)

\* executeTransactionalQuery returned true on a PostgreSQL connection whose
\* results the query filled
TransactionalQueryCommitted ==
    /\ dbCall.op = "executeTransactionalQuery"
    /\ dbCall.wasConnected
    /\ dbCall.result
    /\ connection.databaseType = "PostgreSQL"
    /\ connection.queryResults = <<"PG Result 1", "PG Result 2">>

(***************************************************************************)
(* Properties of Person, checked under SpecPerson.                         *)
(***************************************************************************)
\* C28: the age of a Person is never negative, whichever constructor or
\* modifier (parameterized constructor, setAge, setDetails, copy or move)
\* set it.
AgeNeverNegative ==
    \A p \in PersonIds : persons[p].constructed => getAge(p) >= 0

(***************************************************************************)
(* Properties of Document, checked under SpecDocument.                     *)
(***************************************************************************)
\* C29: for every Document d, deserialize(serialize(d)) succeeds and restores
\* exactly the title, content, author and page count of d, whatever
\* characters the text fields contain.
DeserializeRestoresDocument ==
    docCall.op = "deserialize" => (docCall.outcome = "true" /\ restored = document)

(***************************************************************************)
(* Properties of MyString, checked under SpecMyString.                     *)
(***************************************************************************)
Owners(b) == {s \in StringIds : strings[s].alive /\ strings[s].data = b}

MovedFrom(s) ==
    /\ strCall.op \in {"MyString(MyString&&)", "operator=(MyString&&)"}
    /\ strCall.source = s
    /\ strCall.target # s

====
